---- MODULE Spec2Model ----
(***************************************************************************)
(* BeetleBot joystick controller: the device connection lifecycle (the     *)
(* Bluetooth Classic hook, the BLE hook) and the command dispatch of the   *)
(* control screen, as state machines.                                      *)
(*                                                                         *)
(* An async function is a process whose steps are the code between two     *)
(* awaits: JavaScript runs each such piece to completion, so one action    *)
(* is one piece.  The transport (the platform's Bluetooth library) is the  *)
(* environment: every promise it returns settles with any outcome the      *)
(* library can produce.                                                    *)
(***************************************************************************)
EXTENDS Integers, Sequences, FiniteSets, TLC

NULL == "null"

\* Addresses of the remote units a caller can hand to the hooks.
Devices == {"d1", "d2"}

\* How many connectToDevice calls may be in flight at once (nothing in the
\* hooks serialises them).
MaxCalls == 1

\* How many disconnectDevice calls may be awaiting the transport at once.
MaxDisc == 1

\* How many transport writes may be awaiting their result at once.
MaxWrites == 1

Calls == 1..MaxCalls

RECURSIVE SumOver(_, _)
SumOver(f, S) ==
    IF S = {} THEN 0
    ELSE LET x == CHOOSE y \in S : TRUE IN f[x] + SumOver(f, S \ {x})

VARIABLES
    \* ---- useBluetoothClassic ----
    clDeviceRef,          \* deviceRef.current
    clDevice,             \* device (React state)
    clConnectedDeviceId,  \* connectedDeviceId (React state)
    clIsScanning,         \* isScanning
    clDevicesMap,         \* devicesMap, as the set of its addresses
    clScan,               \* the scanForDevices call: locals and position
    clShowDeviceModal,    \* showDeviceModal
    clCalls,              \* the connectToDevice calls: locals and position
    clDisc,               \* disconnectDevice calls awaiting device.disconnect()
    clWrites,             \* sendCommand calls awaiting device.write()
    hClLost,              \* history: a write has failed with a disconnect
                          \* error and the user has not scanned or connected
                          \* since
    \* ---- useBle ----
    bleDeviceRef,         \* deviceRef.current
    bleDevice,            \* device (React state)
    bleConnectedDeviceId, \* connectedDeviceId (React state)
    bleIsScanning,        \* isScanning
    bleShowDeviceModal,   \* showDeviceModal
    bleCalls,             \* the connectToDevice calls: locals and position
    bleDisc,              \* disconnectDevice calls awaiting the transport
    bleWrites,            \* sendCommand calls awaiting a characteristic write
    bleOpen,              \* transport: devices with an open BLE connection
    hBleDropped,          \* history: a write has failed with an error that is
                          \* no disconnect since deviceRef got its value
    \* ---- ControlScreen (app/index.tsx) and the widgets that call it ----
    connectedDeviceId,    \* connectedDeviceId (React state)
    sendCommandFn,        \* sendCommandFn is set (TRUE) or null (FALSE)
    lastCommandRef,       \* lastCommandRef.current
    speedSentRef,         \* speedSentRef.current
    currentGear,          \* currentGear (vehicle control context)
    plusTimers,           \* pending setTimeout(() => sendCommandFn("+"))
    maxTimers,            \* pending setTimeout(() => sendCommandFn(MAX:n)), by n
    initPending,          \* initCommands runs past "/" and before MAX:100
    sent,                 \* the commands passed to sendCommand since the last
                          \* handleConnected, in order
    \* ---- history, read by no action's guard or effect on the above ----
    hIntent,              \* intent of the previous sample of the current
                          \* sample sequence (NULL when the sequence starts)
    hChanges,             \* changes of intent counted since handleConnected
    hDirTokens,           \* direction tokens sent by handleJoystickMove since
    hScenario,            \* how far the handler calls since handleConnected
                          \* follow Forward, Forward, release
    hGear                 \* "none", or the intent before a gear change made
                          \* while connected that no sample has followed yet,
                          \* or "same" once a sample of that intent followed
VARIABLES
    \* ---- BluetoothService (services/bluetoothService.ts) ----
    svcIsConnected,       \* isConnected
    svcConnectedDevice,   \* connectedDevice
    svcWriteCharacteristic, \* writeCharacteristic is set (TRUE) or null
    svcCommandQueue,      \* commandQueue
    svcSendInterval,      \* sendInterval is set (TRUE) or null
    svcIntervals,         \* the setInterval timers that are running
    svcCalls,             \* the connect calls: locals and position
    svcDisc,              \* disconnect calls awaiting cancelConnection()
    svcLastWrite,         \* the command of the last characteristic write
    svcWrites             \* characteristic writes of processCommand that have
                          \* not settled
VARIABLES
    \* ---- device scan: useBle and BluetoothConnector ----
    bleDevicesMap,        \* useBle: devicesMap, id -> scanned device
    bleScanOn,            \* transport: the manager of useBle is scanning
    hBleRssi,             \* history: per robot, the rssi of the last scan result
                          \* of the running scan and whether it replaced another
    cnAvailableDevices,   \* BluetoothConnector: availableDevices
    cnScanning,           \* BluetoothConnector: scanning
    cnScan,               \* BluetoothConnector: position of startScan
    cnScanOn,             \* transport: the manager of the service is scanning
    hCnRssi,              \* history: as hBleRssi, for the connector's scan
    adapterOn,            \* transport: the adapter's state is "PoweredOn"
    bleScanTimers         \* useBle: pending setTimeout(() => stopScan()); they
                          \* have one delay and fire in the order they were set
VARIABLES
    \* ---- Joystick input: JoystickMath and the classification ----
    joyRaw,               \* the (dx, dy) of the last normalize call, in px
    joyData,              \* the JoystickData it returned
    joyGear,              \* currentGear when handleJoystickMove got joyData
    joyCommand,           \* the directionCommand it computed
    joyCardinal           \* detectCardinalDirection(joyData), or "none"
VARIABLES
    \* ---- the claw: ClawControl and the vehicle control context ----
    clawIsClosed,         \* ClawControl: isClosed
    clawOpen,             \* vehicle control context: clawOpen
    clawPresses           \* handlePress calls awaiting the haptic tap, counted
                          \* by the isClosed their render has captured

clVars == <<clDeviceRef, clDevice, clConnectedDeviceId, clIsScanning,
            clDevicesMap, clScan,
            clShowDeviceModal, clCalls, clDisc, clWrites, hClLost>>

bleVars == <<bleDeviceRef, bleDevice, bleConnectedDeviceId, bleIsScanning,
             bleShowDeviceModal, bleCalls, bleDisc, bleWrites, bleOpen,
             hBleDropped>>

appVars == <<connectedDeviceId, sendCommandFn, lastCommandRef, speedSentRef,
             currentGear, plusTimers,
             maxTimers, initPending, sent, hIntent, hChanges, hDirTokens,
             hScenario, hGear>>

svcVars == <<svcIsConnected, svcConnectedDevice, svcWriteCharacteristic,
             svcCommandQueue, svcSendInterval, svcIntervals, svcCalls,
             svcDisc, svcLastWrite, svcWrites>>

scanVars == <<bleDevicesMap, bleScanOn, hBleRssi, cnAvailableDevices,
              cnScanning, cnScan, cnScanOn, hCnRssi, adapterOn,
              bleScanTimers>>

joyVars == <<joyRaw, joyData, joyGear, joyCommand, joyCardinal>>

clawVars == <<clawIsClosed, clawOpen, clawPresses>>

vars == <<clVars, bleVars, appVars, svcVars, scanVars, joyVars, clawVars>>

\* What the steps of each part leave alone.
ClFrame == UNCHANGED <<bleVars, appVars, svcVars, scanVars, joyVars, clawVars>>

BleFrame == UNCHANGED <<clVars, appVars, svcVars, scanVars, joyVars, clawVars>>

AppFrame == UNCHANGED <<clVars, bleVars, svcVars, scanVars, joyVars, clawVars>>

SvcFrame == UNCHANGED <<clVars, bleVars, appVars, scanVars, joyVars, clawVars>>

\* What the scan steps of useBle leave alone outside the hook.
BleScanFrame ==
    UNCHANGED <<clVars, appVars, svcVars, joyVars, clawVars, cnAvailableDevices,
                cnScanning, cnScan, cnScanOn, hCnRssi, adapterOn>>

\* What the steps of BluetoothConnector's scan leave alone.
CnFrame ==
    UNCHANGED <<clVars, bleVars, appVars, svcVars, joyVars, clawVars, bleDevicesMap,
                bleScanOn, hBleRssi, bleScanTimers>>

\* What the joystick steps leave alone.
JoyFrame == UNCHANGED <<clVars, bleVars, appVars, svcVars, scanVars, clawVars>>

\* What the claw steps leave alone outside the control screen.
ClawFrame == UNCHANGED <<clVars, bleVars, svcVars, scanVars, joyVars>>

(***************************************************************************)
(* useBluetoothClassic                                                     *)
(***************************************************************************)

\* No scanForDevices call is running.  (stopped is history: stopScan was
\* called since the running call began.)
ClNoScan == [pc |-> "idle", newMap |-> {}, stopped |-> FALSE]

\* What getBondedDevices and startDiscovery may resolve with.
BondedLists == {{"d1"}}

UnpairedLists == {{}, {"d2"}}

\* A connectToDevice call that has not started.  (pairCalls, connectCalls
\* and cancelled are history: the transport calls the call has made, and
\* whether disconnectDevice was called while it was in progress.)
ClIdleCall ==
    [pc |-> "idle", dev |-> NULL, bonded |-> FALSE, paired |-> NULL,
     attempt |-> 0, connected |-> FALSE, pairCalls |-> 0, connectCalls |-> 0,
     cancelled |-> FALSE]

ClInit ==
    /\ hClLost = FALSE
    /\ clDeviceRef = NULL
    /\ clDevice = NULL
    /\ clConnectedDeviceId = NULL
    /\ clIsScanning = FALSE
    /\ clDevicesMap = {}
    /\ clScan = ClNoScan
    /\ clShowDeviceModal = FALSE
    /\ clCalls = [c \in Calls |-> ClIdleCall]
    /\ clDisc = [d \in Devices |-> 0]
    /\ clWrites = [d \in Devices |-> 0]

\* Pairing tried whatever the bonded flag says.
ClNeedsPairing_Always(bonded) == TRUE

\* if (!bonded): pairing is tried only for a device that is not bonded.
ClNeedsPairing(bonded) == ~bonded

\* The loop bound off by one.
ClHasNextAttempt_OffByOne(attempt) == attempt + 1 <= 4

\* for (let attempt = 1; attempt <= 3; attempt++): after attempt n, is there
\* an attempt n + 1?
ClHasNextAttempt(attempt) == attempt + 1 <= 3

\* if (attempt < 3): the 1 s delay after a thrown attempt.
ClRetryDelay(attempt) == attempt < 3

\* The call's record once it calls deviceToConnect.connect() for attempt n.
ClStartAttempt(call, n) ==
    [call EXCEPT !.pc = "connecting", !.attempt = n,
                 !.connectCalls = @ + 1]

\* stopScan(): RNBluetoothClassic.cancelDiscovery(); setIsScanning(false).
\* The scanForDevices call that is running, if any, is not told.
ClStopScanEffect ==
    /\ clIsScanning' = FALSE
    /\ clScan' = IF clScan.pc = "idle" THEN clScan
                 ELSE [clScan EXCEPT !.stopped = TRUE]
    /\ UNCHANGED clDevicesMap

\* scanForDevices, up to await getBondedDevices() (permissions granted).
\* One call at a time is followed.
ClScanForDevices ==
    /\ clScan.pc = "idle"
    /\ clDevicesMap' = {}
    /\ clIsScanning' = TRUE
    /\ clShowDeviceModal' = TRUE
    /\ clScan' = [pc |-> "bonded", newMap |-> {}, stopped |-> FALSE]
    /\ UNCHANGED <<clDeviceRef, clDevice, clConnectedDeviceId, clCalls,
                   clDisc, clWrites>>
    /\ hClLost' = FALSE
    /\ ClFrame

\* getBondedDevices() resolved: newMap gets the bonded devices and
\* startDiscovery() is called.
ClScanBondedSettles(bonded) ==
    /\ clScan.pc = "bonded"
    /\ clScan' = [clScan EXCEPT !.pc = "discovery", !.newMap = bonded]
    /\ UNCHANGED <<clDeviceRef, clDevice, clConnectedDeviceId, clIsScanning,
                   clDevicesMap, clShowDeviceModal, clCalls, clDisc, clWrites>>
    /\ UNCHANGED hClLost
    /\ ClFrame

\* startDiscovery() resolved: setDevicesMap(newMap), setIsScanning(false).
ClScanDiscoverySettles(unpaired) ==
    /\ clScan.pc = "discovery"
    /\ clDevicesMap' = clScan.newMap \cup unpaired
    /\ clIsScanning' = FALSE
    /\ clScan' = ClNoScan
    /\ UNCHANGED <<clDeviceRef, clDevice, clConnectedDeviceId,
                   clShowDeviceModal, clCalls, clDisc, clWrites>>
    /\ UNCHANGED hClLost
    /\ ClFrame

\* getBondedDevices() or startDiscovery() rejected: the catch.
ClScanFails ==
    /\ clScan.pc \in {"bonded", "discovery"}
    /\ clIsScanning' = FALSE
    /\ clScan' = ClNoScan
    /\ UNCHANGED <<clDeviceRef, clDevice, clConnectedDeviceId, clDevicesMap,
                   clShowDeviceModal, clCalls, clDisc, clWrites>>
    /\ UNCHANGED hClLost
    /\ ClFrame

\* The hook's stopScan, called by the modal's close button.
ClStopScan ==
    /\ clIsScanning
    /\ ClStopScanEffect
    /\ UNCHANGED <<clDeviceRef, clDevice, clConnectedDeviceId,
                   clShowDeviceModal, clCalls, clDisc, clWrites>>
    /\ UNCHANGED hClLost
    /\ ClFrame

\* connectToDevice(deviceToConnect), up to its first await.
ClConnectToDevice(c, d, b) ==
    /\ clCalls[c].pc \in {"idle", "done"}
    /\ ClStopScanEffect
    /\ LET fresh == [ClIdleCall EXCEPT !.dev = d, !.bonded = b]
       IN clCalls' = [clCalls EXCEPT ![c] =
              IF ClNeedsPairing(b)
              THEN [fresh EXCEPT !.pc = "pairing", !.pairCalls = 1]
              ELSE ClStartAttempt(fresh, 1)]
    /\ UNCHANGED <<clDeviceRef, clDevice, clConnectedDeviceId,
                   clShowDeviceModal, clDisc, clWrites>>
    /\ hClLost' = FALSE
    /\ ClFrame

\* pairDevice settled: true waits 3 s, false or a throw go on to connect.
ClPairSettles(c, outcome) ==
    /\ clCalls[c].pc = "pairing"
    /\ clCalls' = [clCalls EXCEPT ![c] =
           IF outcome = "true"
           THEN [@ EXCEPT !.pc = "pairWait", !.paired = outcome]
           ELSE ClStartAttempt([@ EXCEPT !.paired = outcome], 1)]
    /\ UNCHANGED <<clDeviceRef, clDevice, clConnectedDeviceId, clIsScanning, clDevicesMap, clScan,
                   clShowDeviceModal, clDisc, clWrites>>
    /\ UNCHANGED hClLost
    /\ ClFrame

\* The 3 s pause after a successful pairing; then getBondedDevices is called.
ClPairWaitElapsed(c) ==
    /\ clCalls[c].pc = "pairWait"
    /\ clCalls' = [clCalls EXCEPT ![c].pc = "getBonded"]
    /\ UNCHANGED <<clDeviceRef, clDevice, clConnectedDeviceId, clIsScanning, clDevicesMap, clScan,
                   clShowDeviceModal, clDisc, clWrites>>
    /\ UNCHANGED hClLost
    /\ ClFrame

\* getBondedDevices settled: when the address is found deviceToConnect becomes
\* that entry (same address: dev is unchanged); a throw is caught by the
\* pairing catch.  Either way the first attempt follows.
ClGetBondedSettles(c, outcome) ==
    /\ clCalls[c].pc = "getBonded"
    /\ outcome \in {"found", "absent", "throw"}
    /\ clCalls' = [clCalls EXCEPT ![c] = ClStartAttempt(@, 1)]
    /\ UNCHANGED <<clDeviceRef, clDevice, clConnectedDeviceId, clIsScanning, clDevicesMap, clScan,
                   clShowDeviceModal, clDisc, clWrites>>
    /\ UNCHANGED hClLost
    /\ ClFrame

\* After the loop with connected = true: the session is recorded.
ClConnectSucceeds(c) ==
    /\ clCalls' = [clCalls EXCEPT ![c].pc = "done", ![c].connected = TRUE]
    /\ clDeviceRef' = clCalls[c].dev
    /\ clDevice' = clCalls[c].dev
    /\ clConnectedDeviceId' = clCalls[c].dev
    /\ clShowDeviceModal' = FALSE

\* After the loop with connected = false: the throw, caught by the outer catch.
ClConnectFails(c) ==
    /\ clCalls' = [clCalls EXCEPT ![c].pc = "done", ![c].connected = FALSE]
    /\ clDeviceRef' = NULL
    /\ clDevice' = NULL
    /\ clConnectedDeviceId' = NULL
    /\ UNCHANGED clShowDeviceModal

\* The loop goes on to its next iteration, or ends without a connection.
ClNextIteration(c) ==
    IF ClHasNextAttempt(clCalls[c].attempt)
    THEN /\ clCalls' = [clCalls EXCEPT ![c] =
                ClStartAttempt(@, clCalls[c].attempt + 1)]
         /\ UNCHANGED <<clDeviceRef, clDevice, clConnectedDeviceId,
                        clShowDeviceModal>>
    ELSE ClConnectFails(c)

\* deviceToConnect.connect() settled.
ClConnectSettles(c, outcome) ==
    /\ clCalls[c].pc = "connecting"
    /\ CASE outcome = "true" -> ClConnectSucceeds(c)
         [] outcome = "false" -> ClNextIteration(c)
         [] outcome = "throw" ->
              IF ClRetryDelay(clCalls[c].attempt)
              THEN /\ clCalls' = [clCalls EXCEPT ![c].pc = "backoff"]
                   /\ UNCHANGED <<clDeviceRef, clDevice, clConnectedDeviceId,
                                  clShowDeviceModal>>
              ELSE ClNextIteration(c)
    /\ UNCHANGED <<clIsScanning, clDevicesMap, clScan, clDisc, clWrites>>
    /\ UNCHANGED hClLost
    /\ ClFrame

\* The 1 s delay elapsed.
ClBackoffElapsed(c) ==
    /\ clCalls[c].pc = "backoff"
    /\ ClNextIteration(c)
    /\ UNCHANGED <<clIsScanning, clDevicesMap, clScan, clDisc, clWrites>>
    /\ UNCHANGED hClLost
    /\ ClFrame

\* if (deviceRef.current): disconnectDevice does something only then.
ClHoldsDevice == clDeviceRef # NULL

\* The calls, with those in progress marked as cancelled by the user (the
\* code keeps no such mark and the calls go on as before).
ClCancelMarked ==
    [c \in Calls |->
        IF clCalls[c].pc \notin {"idle", "done"}
        THEN [clCalls[c] EXCEPT !.cancelled = TRUE]
        ELSE clCalls[c]]

\* disconnectDevice() with a device held, up to its await: the transport's
\* disconnect() is called on the device held now.
ClDisconnectDevice ==
    /\ SumOver(clDisc, Devices) < MaxDisc
    /\ ClHoldsDevice
    /\ clDisc' = [clDisc EXCEPT ![clDeviceRef] = @ + 1]
    /\ clCalls' = ClCancelMarked
    /\ UNCHANGED <<clDeviceRef, clDevice, clConnectedDeviceId, clIsScanning, clDevicesMap, clScan,
                   clShowDeviceModal, clWrites>>
    /\ UNCHANGED hClLost
    /\ ClFrame

\* disconnectDevice() with no device held: returns at once.
ClDisconnectDeviceNoDevice ==
    /\ ~ClHoldsDevice
    /\ clCalls' = ClCancelMarked
    /\ UNCHANGED <<clDeviceRef, clDevice, clConnectedDeviceId, clIsScanning, clDevicesMap, clScan,
                   clShowDeviceModal, clDisc, clWrites>>
    /\ UNCHANGED hClLost
    /\ ClFrame

\* The references after device.disconnect() settled: cleared when it
\* resolved; when it threw the catch only logs.
ClRefAfterDisconnect(outcome, ref) == IF outcome = "ok" THEN NULL ELSE ref

\* device.disconnect() settled.
ClDisconnectSettles(d, outcome) ==
    /\ clDisc[d] > 0
    /\ clDisc' = [clDisc EXCEPT ![d] = @ - 1]
    /\ clDeviceRef' = ClRefAfterDisconnect(outcome, clDeviceRef)
    /\ clDevice' = ClRefAfterDisconnect(outcome, clDevice)
    /\ clConnectedDeviceId' = ClRefAfterDisconnect(outcome, clConnectedDeviceId)
    /\ UNCHANGED <<clIsScanning, clDevicesMap, clScan, clShowDeviceModal, clCalls, clWrites>>
    /\ UNCHANGED hClLost
    /\ ClFrame

\* sendCommand(command), up to its await: the write is issued when a device
\* is held.
ClSendCommand ==
    /\ SumOver(clWrites, Devices) < MaxWrites
    /\ clDeviceRef # NULL
    /\ clWrites' = [clWrites EXCEPT ![clDeviceRef] = @ + 1]
    /\ UNCHANGED <<clDeviceRef, clDevice, clConnectedDeviceId, clIsScanning, clDevicesMap, clScan,
                   clShowDeviceModal, clCalls, clDisc>>
    /\ UNCHANGED hClLost
    /\ ClFrame

\* sendCommand(command) with no device held: a warning, no write.
ClSendCommandNoDevice ==
    /\ clDeviceRef = NULL
    /\ UNCHANGED clVars
    /\ ClFrame

\* device.write() settled: true, false, a throw whose message contains
\* "disconnect", or any other throw.  Only the third clears the references.
ClWriteSettles(d, outcome) ==
    /\ clWrites[d] > 0
    /\ clWrites' = [clWrites EXCEPT ![d] = @ - 1]
    /\ IF outcome = "disconnect"
       THEN /\ clDeviceRef' = NULL
            /\ clDevice' = NULL
            /\ clConnectedDeviceId' = NULL
       ELSE UNCHANGED <<clDeviceRef, clDevice, clConnectedDeviceId>>
    /\ UNCHANGED <<clIsScanning, clDevicesMap, clScan, clShowDeviceModal, clCalls, clDisc>>
    /\ hClLost' = (hClLost \/ outcome = "disconnect")
    /\ ClFrame

\* A call starts in the lowest slot that is free (the slots are alike).
ClFreeSlot(c) ==
    /\ clCalls[c].pc \in {"idle", "done"}
    /\ \A c2 \in Calls : c2 < c => clCalls[c2].pc \notin {"idle", "done"}

ClNext ==
    \/ ClScanForDevices
    \/ \E bonded \in BondedLists : ClScanBondedSettles(bonded)
    \/ \E unpaired \in UnpairedLists : ClScanDiscoverySettles(unpaired)
    \/ ClScanFails
    \/ ClStopScan
    \/ \E c \in Calls, d \in Devices, b \in BOOLEAN :
           ClFreeSlot(c) /\ ClConnectToDevice(c, d, b)
    \/ \E c \in Calls, o \in {"true", "false", "throw"} : ClPairSettles(c, o)
    \/ \E c \in Calls : ClPairWaitElapsed(c)
    \/ \E c \in Calls, o \in {"found", "absent", "throw"} :
           ClGetBondedSettles(c, o)
    \/ \E c \in Calls, o \in {"true", "false", "throw"} :
           ClConnectSettles(c, o)
    \/ \E c \in Calls : ClBackoffElapsed(c)
    \/ ClDisconnectDevice
    \/ ClDisconnectDeviceNoDevice
    \/ \E d \in Devices, o \in {"ok", "throw"} : ClDisconnectSettles(d, o)
    \/ ClSendCommand
    \/ ClSendCommandNoDevice
    \/ \E d \in Devices, o \in {"true", "false", "disconnect", "error"} :
           ClWriteSettles(d, o)

\* The steps the hook takes without the user: the transport's promises
\* settle and the timers run out.
ClSystemNext ==
    \/ \E bonded \in BondedLists : ClScanBondedSettles(bonded)
    \/ \E unpaired \in UnpairedLists : ClScanDiscoverySettles(unpaired)
    \/ ClScanFails
    \/ \E c \in Calls, o \in {"true", "false", "throw"} : ClPairSettles(c, o)
    \/ \E c \in Calls : ClPairWaitElapsed(c)
    \/ \E c \in Calls, o \in {"found", "absent", "throw"} :
           ClGetBondedSettles(c, o)
    \/ \E c \in Calls, o \in {"true", "false", "throw"} :
           ClConnectSettles(c, o)
    \/ \E c \in Calls : ClBackoffElapsed(c)
    \/ \E d \in Devices, o \in {"ok", "throw"} : ClDisconnectSettles(d, o)
    \/ \E d \in Devices, o \in {"true", "false", "disconnect", "error"} :
           ClWriteSettles(d, o)

(***************************************************************************)
(* useBluetoothClassic: what a caller of the hook can see                  *)
(***************************************************************************)

\* The connection-related values the hook returns.
ClView ==
    [device |-> clDevice, connectedDeviceId |-> clConnectedDeviceId,
     isScanning |-> clIsScanning, showDeviceModal |-> clShowDeviceModal]

\* The views of a hook that never tried to connect.
ClNeverConnectedViews ==
    {[device |-> NULL, connectedDeviceId |-> NULL,
      isScanning |-> s, showDeviceModal |-> m] : s, m \in BOOLEAN}

ClInProgress(c) == clCalls[c].pc \notin {"idle", "done"}

ClDiscInFlight == SumOver(clDisc, Devices)

ClWritesInFlight == SumOver(clWrites, Devices)

\* The lifecycle state the hook is in.  A held device counts as Connected
\* unless the hook is closing it.
ClConnectionState ==
    IF ClDiscInFlight > 0 THEN "Disconnecting"
    ELSE IF clDeviceRef # NULL THEN "Connected"
    ELSE IF \E c \in Calls : clCalls[c].pc \in {"pairing", "pairWait", "getBonded"}
         THEN "Pairing"
    ELSE IF \E c \in Calls : ClInProgress(c) THEN "Connecting"
    ELSE "Idle"

\* deviceRef.current after one whole disconnectDevice call that starts with
\* deviceRef.current = ref, the transport's disconnect() settling with outcome.
ClAfterDisconnect(ref, outcome) ==
    IF ref = NULL THEN ref ELSE ClRefAfterDisconnect(outcome, ref)

(***************************************************************************)
(* useBle                                                                  *)
(***************************************************************************)

\* The command strings a caller passes to sendCommand.
Commands == {"F", "S"}

\* How many connectToDevice calls of useBle may be in flight at once.
MaxBleCalls == 2

BleCalls == 1..MaxBleCalls

\* The devices that advertise: the robots and one device without a name.
Advertisers == Devices \cup {"anon"}

AdvertisedName(d) == IF d \in Devices THEN "BeetleBot" ELSE NULL

\* Signal strengths of received advertisements, in dBm.
Rssis == {-80, -40}

\* The Device objects the manager passes to a scan callback.
ScannedDevices ==
    {[id |-> d, name |-> AdvertisedName(d), rssi |-> r] :
        d \in Advertisers, r \in Rssis}

EmptyMap == [d \in {} |-> NULL]

\* No scan result for an id yet.
NotSeen == [seen |-> FALSE, last |-> 0, replaced |-> FALSE]

\* The history of an id after a scan result with this rssi.
Observed(h, rssi) ==
    [seen |-> TRUE, last |-> rssi,
     replaced |-> h.replaced \/ (h.seen /\ h.last # rssi)]

\* The histories after a scan result of a robot.
Recorded(h, dev) ==
    IF dev.id \in Devices
    THEN [h EXCEPT ![dev.id] = Observed(h[dev.id], dev.rssi)]
    ELSE h

\* new Map(prevMap).set(key, value), keeping the first value instead.
MapSet_KeepFirst(m, key, value) ==
    [k \in DOMAIN m \cup {key} |-> IF k \in DOMAIN m THEN m[k] ELSE value]

\* new Map(prevMap).set(key, value)
MapSet(m, key, value) ==
    [k \in DOMAIN m \cup {key} |-> IF k = key THEN value ELSE m[k]]

BleIdleCall == [pc |-> "idle", dev |-> NULL, connected |-> FALSE]

BleInit ==
    /\ hBleDropped = FALSE
    /\ bleDeviceRef = NULL
    /\ bleDevice = NULL
    /\ bleConnectedDeviceId = NULL
    /\ bleIsScanning = FALSE
    /\ bleShowDeviceModal = FALSE
    /\ bleCalls = [c \in BleCalls |-> BleIdleCall]
    /\ bleDisc = [d \in Devices |-> 0]
    /\ bleWrites = <<>>
    /\ bleOpen = {}
    /\ bleDevicesMap = EmptyMap
    /\ bleScanOn = FALSE
    /\ hBleRssi = [d \in Devices |-> NotSeen]
    /\ bleScanTimers = 0

\* hBleDropped after a step in which a write failed that way (or none did).
BleDroppedAfter(dropped) ==
    hBleDropped' = IF bleDeviceRef' # bleDeviceRef THEN FALSE
                   ELSE (hBleDropped \/ dropped)

\* error.message.includes("disconnected"), true of every error.
BleIsDisconnectError_Any(outcome) == TRUE

\* error instanceof Error && error.message.includes("disconnected")
BleIsDisconnectError(outcome) == outcome = "disconnected"

\* How many auto-stop timers of useBle's scans may be pending at once.
MaxScanTimers == 2

\* scanForDevices once the permissions are granted: the list is emptied, the
\* scan is started and its auto-stop timer is set.
BleScanForDevices ==
    /\ bleScanTimers < MaxScanTimers
    /\ bleScanTimers' = bleScanTimers + 1
    /\ bleDevicesMap' = EmptyMap
    /\ bleIsScanning' = TRUE
    /\ bleShowDeviceModal' = TRUE
    /\ bleScanOn' = TRUE
    /\ hBleRssi' = [d \in Devices |-> NotSeen]
    /\ UNCHANGED <<bleDeviceRef, bleDevice, bleConnectedDeviceId, bleCalls,
                   bleDisc, bleWrites, bleOpen>>
    /\ BleDroppedAfter(FALSE)
    /\ BleScanFrame

\* The callback of startDeviceScan, called with a scanned device.
BleScanResult(dev) ==
    /\ bleScanOn
    /\ bleDevicesMap' = IF dev.name # NULL
                        THEN MapSet(bleDevicesMap, dev.id, dev)
                        ELSE bleDevicesMap
    /\ hBleRssi' = Recorded(hBleRssi, dev)
    /\ UNCHANGED <<bleVars, bleScanOn, bleScanTimers>>
    /\ BleScanFrame

\* The callback of startDeviceScan, called with an error.  Whether the
\* manager goes on scanning after it is the library's choice.
BleScanError(stops) ==
    /\ bleScanOn
    /\ bleIsScanning' = FALSE
    /\ bleScanOn' = (bleScanOn /\ ~stops)
    /\ UNCHANGED <<bleDeviceRef, bleDevice, bleConnectedDeviceId,
                   bleShowDeviceModal, bleCalls, bleDisc, bleWrites, bleOpen,
                   bleDevicesMap, hBleRssi, bleScanTimers>>
    /\ BleDroppedAfter(FALSE)
    /\ BleScanFrame

\* stopScan(): stopDeviceScan(); setIsScanning(false), called by the modal's
\* close button.
BleStopScan ==
    /\ bleIsScanning \/ bleScanOn
    /\ bleIsScanning' = FALSE
    /\ bleScanOn' = FALSE
    /\ UNCHANGED <<bleDeviceRef, bleDevice, bleConnectedDeviceId,
                   bleShowDeviceModal, bleCalls, bleDisc, bleWrites, bleOpen,
                   bleDevicesMap, hBleRssi, bleScanTimers>>
    /\ BleDroppedAfter(FALSE)
    /\ BleScanFrame

\* The oldest auto-stop timer fires: stopScan().
BleScanTimerFires ==
    /\ bleScanTimers > 0
    /\ bleScanTimers' = bleScanTimers - 1
    /\ bleIsScanning' = FALSE
    /\ bleScanOn' = FALSE
    /\ UNCHANGED <<bleDeviceRef, bleDevice, bleConnectedDeviceId,
                   bleShowDeviceModal, bleCalls, bleDisc, bleWrites, bleOpen,
                   bleDevicesMap, hBleRssi>>
    /\ BleDroppedAfter(FALSE)
    /\ BleScanFrame

\* connectToDevice(deviceToConnect), up to its first await: stopScan(), then
\* the manager's connectToDevice is called.
BleConnectToDevice(c, d) ==
    /\ bleCalls[c].pc \in {"idle", "done"}
    /\ bleIsScanning' = FALSE
    /\ bleScanOn' = FALSE
    /\ bleCalls' = [bleCalls EXCEPT ![c] =
           [BleIdleCall EXCEPT !.pc = "connecting", !.dev = d]]
    /\ UNCHANGED <<bleDeviceRef, bleDevice, bleConnectedDeviceId,
                   bleShowDeviceModal, bleDisc, bleWrites, bleOpen,
                   bleDevicesMap, hBleRssi, bleScanTimers>>
    /\ BleDroppedAfter(FALSE)
    /\ BleScanFrame

\* The catch of connectToDevice: the references are cleared.
BleConnectFails(c) ==
    /\ bleCalls' = [bleCalls EXCEPT ![c].pc = "done", ![c].connected = FALSE]
    /\ bleDeviceRef' = NULL
    /\ bleDevice' = NULL
    /\ bleConnectedDeviceId' = NULL
    /\ UNCHANGED bleShowDeviceModal

\* The manager's connectToDevice settled: a device (the link is open),
\* undefined (no manager) or a throw.
BleConnectSettled(c, outcome) ==
    /\ bleCalls[c].pc = "connecting"
    /\ IF outcome = "device"
       THEN /\ bleCalls' = [bleCalls EXCEPT ![c].pc = "discovering"]
            /\ bleOpen' = bleOpen \cup {bleCalls[c].dev}
            /\ UNCHANGED <<bleDeviceRef, bleDevice, bleConnectedDeviceId,
                           bleShowDeviceModal>>
       ELSE /\ BleConnectFails(c)
            /\ UNCHANGED bleOpen
    /\ UNCHANGED <<bleIsScanning, bleDisc, bleWrites>>
    /\ BleDroppedAfter(FALSE)

\* The step of the hook alone.
BleConnectSettles(c, outcome) == BleConnectSettled(c, outcome) /\ BleFrame

\* discoverAllServicesAndCharacteristics settled.
BleDiscoverSettled(c, outcome) ==
    /\ bleCalls[c].pc = "discovering"
    /\ IF outcome = "ok"
       THEN /\ bleCalls' = [bleCalls EXCEPT ![c].pc = "listing"]
            /\ UNCHANGED <<bleDeviceRef, bleDevice, bleConnectedDeviceId,
                           bleShowDeviceModal>>
       ELSE BleConnectFails(c)
    /\ UNCHANGED <<bleIsScanning, bleDisc, bleWrites, bleOpen>>
    /\ BleDroppedAfter(FALSE)

\* The step of the hook alone.
BleDiscoverSettles(c, outcome) == BleDiscoverSettled(c, outcome) /\ BleFrame

\* services() and each service's characteristics() settled: all resolved
\* (the session is recorded) or one of them threw.
BleListingSettled(c, outcome) ==
    /\ bleCalls[c].pc = "listing"
    /\ IF outcome = "ok"
       THEN /\ bleCalls' = [bleCalls EXCEPT ![c].pc = "done",
                                            ![c].connected = TRUE]
            /\ bleDeviceRef' = bleCalls[c].dev
            /\ bleDevice' = bleCalls[c].dev
            /\ bleConnectedDeviceId' = bleCalls[c].dev
            /\ bleShowDeviceModal' = FALSE
       ELSE BleConnectFails(c)
    /\ UNCHANGED <<bleIsScanning, bleDisc, bleWrites, bleOpen>>
    /\ BleDroppedAfter(FALSE)

\* The step of the hook alone.
BleListingSettles(c, outcome) == BleListingSettled(c, outcome) /\ BleFrame

\* disconnectDevice() with a device held, up to its await.
BleDisconnectDevice ==
    /\ SumOver(bleDisc, Devices) < MaxDisc
    /\ bleDeviceRef # NULL
    /\ bleDisc' = [bleDisc EXCEPT ![bleDeviceRef] = @ + 1]
    /\ UNCHANGED <<bleDeviceRef, bleDevice, bleConnectedDeviceId,
                   bleIsScanning, bleShowDeviceModal, bleCalls, bleWrites,
                   bleOpen>>
    /\ BleDroppedAfter(FALSE)
    /\ BleFrame

\* disconnectDevice() with no device held: returns at once.
BleDisconnectDeviceNoDevice ==
    /\ bleDeviceRef = NULL
    /\ UNCHANGED bleVars
    /\ BleDroppedAfter(FALSE)
    /\ BleFrame

\* cancelDeviceConnection settled: resolved (the link is closed) clears the
\* references; a throw is logged, and the link may or may not be closed.
BleDisconnectSettled(d, outcome, closed) ==
    /\ bleDisc[d] > 0
    /\ bleDisc' = [bleDisc EXCEPT ![d] = @ - 1]
    /\ IF outcome = "ok"
       THEN /\ bleDeviceRef' = NULL
            /\ bleDevice' = NULL
            /\ bleConnectedDeviceId' = NULL
            /\ bleOpen' = bleOpen \ {d}
       ELSE /\ UNCHANGED <<bleDeviceRef, bleDevice, bleConnectedDeviceId>>
            /\ bleOpen' = IF closed THEN bleOpen \ {d} ELSE bleOpen
    /\ UNCHANGED <<bleIsScanning, bleShowDeviceModal, bleCalls, bleWrites>>
    /\ BleDroppedAfter(FALSE)

\* The step of the hook alone.
BleDisconnectSettles(d, outcome, closed) == BleDisconnectSettled(d, outcome, closed) /\ BleFrame

\* sendCommand(command) with a device held, up to its await: the command is
\* written with response.
BleSendCommand(cmd) ==
    /\ Len(bleWrites) < MaxWrites
    /\ bleDeviceRef # NULL
    /\ bleWrites' = Append(bleWrites,
           [dev |-> bleDeviceRef, cmd |-> cmd, stage |-> "withResponse",
            withResponseError |-> NULL])
    /\ UNCHANGED <<bleDeviceRef, bleDevice, bleConnectedDeviceId,
                   bleIsScanning, bleShowDeviceModal, bleCalls, bleDisc,
                   bleOpen>>
    /\ BleDroppedAfter(FALSE)
    /\ BleFrame

\* sendCommand(command) with no device held: a warning, no write.
BleSendCommandNoDevice ==
    /\ bleDeviceRef = NULL
    /\ UNCHANGED bleVars
    /\ BleFrame

Remove(seq, i) == SubSeq(seq, 1, i - 1) \o SubSeq(seq, i + 1, Len(seq))

\* What the transport can answer to a write on device d: success needs an
\* open link.
WriteOutcomes(d, open) ==
    IF d \in open THEN {"ok", "disconnected", "other"}
    ELSE {"disconnected", "other"}

\* The link after a write on d settled: an error saying the device is
\* disconnected means the link is gone.
OpenAfterWrite(d, outcome, open) ==
    IF outcome = "disconnected" THEN open \ {d} ELSE open

\* catch (withResponseError): the same command is written again, without
\* response, whatever the error was.
BleFallbackWrite(w, error) ==
    [w EXCEPT !.stage = "withoutResponse", !.withResponseError = error]

\* The write with response settled.
BleWriteWithResponseSettles(i, outcome) ==
    /\ i \in 1..Len(bleWrites)
    /\ bleWrites[i].stage = "withResponse"
    /\ outcome \in WriteOutcomes(bleWrites[i].dev, bleOpen)
    /\ bleWrites' = IF outcome = "ok" THEN Remove(bleWrites, i)
                    ELSE [bleWrites EXCEPT ![i] = BleFallbackWrite(@, outcome)]
    /\ bleOpen' = OpenAfterWrite(bleWrites[i].dev, outcome, bleOpen)
    /\ UNCHANGED <<bleDeviceRef, bleDevice, bleConnectedDeviceId,
                   bleIsScanning, bleShowDeviceModal, bleCalls, bleDisc>>
    /\ BleDroppedAfter(FALSE)
    /\ BleFrame

\* The write without response settled: its error reaches the outer catch,
\* which clears the references when the message contains "disconnected".
BleWriteWithoutResponseSettles(i, outcome) ==
    /\ i \in 1..Len(bleWrites)
    /\ bleWrites[i].stage = "withoutResponse"
    /\ outcome \in WriteOutcomes(bleWrites[i].dev, bleOpen)
    /\ bleWrites' = Remove(bleWrites, i)
    /\ bleOpen' = OpenAfterWrite(bleWrites[i].dev, outcome, bleOpen)
    /\ IF outcome # "ok" /\ BleIsDisconnectError(outcome)
       THEN /\ bleDeviceRef' = NULL
            /\ bleDevice' = NULL
            /\ bleConnectedDeviceId' = NULL
       ELSE UNCHANGED <<bleDeviceRef, bleDevice, bleConnectedDeviceId>>
    /\ UNCHANGED <<bleIsScanning, bleShowDeviceModal, bleCalls, bleDisc>>
    /\ BleDroppedAfter(outcome # "ok" /\ ~BleIsDisconnectError(outcome))
    /\ BleFrame

\* The peer or the radio drops the link.
BleLinkDrops(d) ==
    /\ d \in bleOpen
    /\ bleOpen' = bleOpen \ {d}
    /\ UNCHANGED <<bleDeviceRef, bleDevice, bleConnectedDeviceId,
                   bleIsScanning, bleShowDeviceModal, bleCalls, bleDisc,
                   bleWrites>>
    /\ BleDroppedAfter(FALSE)
    /\ BleFrame

BleFreeSlot(c) ==
    /\ bleCalls[c].pc \in {"idle", "done"}
    /\ \A c2 \in BleCalls : c2 < c => bleCalls[c2].pc \notin {"idle", "done"}

BleNext ==
    \/ BleScanForDevices
    \/ BleStopScan
    \/ BleScanTimerFires
    \/ \E c \in BleCalls, d \in Devices : BleFreeSlot(c) /\ BleConnectToDevice(c, d)
    \/ \E c \in BleCalls, o \in {"device", "undefined", "throw"} :
           BleConnectSettles(c, o)
    \/ \E c \in BleCalls, o \in {"ok", "throw"} : BleDiscoverSettles(c, o)
    \/ \E c \in BleCalls, o \in {"ok", "throw"} : BleListingSettles(c, o)
    \/ BleDisconnectDevice
    \/ BleDisconnectDeviceNoDevice
    \/ \E d \in Devices, o \in {"ok", "throw"}, closed \in BOOLEAN :
           BleDisconnectSettles(d, o, closed)
    \/ \E cmd \in Commands : BleSendCommand(cmd)
    \/ BleSendCommandNoDevice
    \/ \E i \in 1..MaxWrites, o \in {"ok", "disconnected", "other"} :
           BleWriteWithResponseSettles(i, o)
    \/ \E i \in 1..MaxWrites, o \in {"ok", "disconnected", "other"} :
           BleWriteWithoutResponseSettles(i, o)
    \/ \E d \in Devices : BleLinkDrops(d)

\* A session the hook still refers to: through deviceRef, or through the
\* connectedDevice local of a connectToDevice call that is going on.
BleReferenced(d) ==
    \/ bleDeviceRef = d
    \/ \E c \in BleCalls : /\ bleCalls[c].pc \in {"discovering", "listing"}
                        /\ bleCalls[c].dev = d

(***************************************************************************)
(* BluetoothConnector: the device list of its scan                         *)
(***************************************************************************)

CnInit ==
    /\ cnAvailableDevices = <<>>
    /\ cnScanning = FALSE
    /\ cnScan = "idle"
    /\ cnScanOn = FALSE
    /\ hCnRssi = [d \in Devices |-> NotSeen]
    /\ adapterOn = TRUE

\* device.rssi || -100
SignalStrength(rssi) == IF rssi = 0 THEN -100 ELSE rssi

\* The updater passed to setAvailableDevices for a found device.
Upserted(prev, dev) ==
    IF \E i \in 1..Len(prev) : prev[i].id = dev.id
    THEN [i \in 1..Len(prev) |->
             IF prev[i].id = dev.id
             THEN [prev[i] EXCEPT !.signalStrength = SignalStrength(dev.rssi)]
             ELSE prev[i]]
    ELSE Append(prev, [id |-> dev.id, name |-> dev.name,
                       signalStrength |-> SignalStrength(dev.rssi)])

\* startScan, up to the await in bluetoothService.scanForDevices.  One call
\* at a time is followed.
CnStartScan ==
    /\ cnScan = "idle"
    /\ cnScanning' = TRUE
    /\ cnAvailableDevices' = <<>>
    /\ hCnRssi' = [d \in Devices |-> NotSeen]
    /\ cnScan' = "initialize"
    /\ UNCHANGED <<cnScanOn, adapterOn>>
    /\ CnFrame

\* What the manager's state() can settle with: the adapter's state, or an
\* error.
AdapterStates == IF adapterOn THEN {"PoweredOn", "throw"}
                 ELSE {"PoweredOff", "throw"}

\* Where scanForDevices is after state() settled: it goes on (and ends) with
\* "PoweredOn", ends when state() threw, and else waits in initialize() for
\* the state to change to "PoweredOn".
AfterState(state) == IF state \in {"PoweredOn", "throw"} THEN "idle"
                     ELSE "waiting"

\* bleManager.state() of initialize() settled.  With "PoweredOn" the scan is
\* started and scanForDevices returns; when it threw startScan ends.
CnInitializeSettles(state) ==
    /\ cnScan = "initialize"
    /\ state \in AdapterStates
    /\ cnScan' = AfterState(state)
    /\ cnScanOn' = IF state = "PoweredOn" THEN TRUE ELSE cnScanOn
    /\ UNCHANGED <<cnAvailableDevices, cnScanning, hCnRssi, adapterOn>>
    /\ CnFrame

\* The adapter is switched on or off.  The listener that initialize() has
\* subscribed is called with the new state: with "PoweredOn" it resolves,
\* the scan is started and scanForDevices returns.
AdapterStateChanges(on) ==
    /\ adapterOn # on
    /\ adapterOn' = on
    /\ cnScan' = IF on /\ cnScan = "waiting" THEN "idle" ELSE cnScan
    /\ cnScanOn' = IF on /\ cnScan = "waiting" THEN TRUE ELSE cnScanOn
    /\ UNCHANGED <<cnAvailableDevices, cnScanning, hCnRssi>>
    /\ CnFrame

\* The callback of the service's startDeviceScan, called with a device:
\* a device whose name includes "BeetleBot" is passed to onDeviceFound.
CnScanResult(dev) ==
    /\ cnScanOn
    /\ cnAvailableDevices' = IF dev.name = "BeetleBot"
                             THEN Upserted(cnAvailableDevices, dev)
                             ELSE cnAvailableDevices
    /\ hCnRssi' = Recorded(hCnRssi, dev)
    /\ UNCHANGED <<cnScanning, cnScan, cnScanOn, adapterOn>>
    /\ CnFrame

\* The timer of scanForDevices: stopDeviceScan().
CnScanTimerFires ==
    /\ cnScanOn
    /\ cnScanOn' = FALSE
    /\ UNCHANGED <<cnAvailableDevices, cnScanning, cnScan, hCnRssi, adapterOn>>
    /\ CnFrame

\* The timer of startScan's finally: setScanning(false).
CnScanningTimerFires ==
    /\ cnScanning
    /\ cnScan = "idle"
    /\ cnScanning' = FALSE
    /\ UNCHANGED <<cnAvailableDevices, cnScan, cnScanOn, hCnRssi, adapterOn>>
    /\ CnFrame

\* The scans of useBle and of BluetoothConnector.
ScanNext ==
    \/ BleScanForDevices
    \/ \E dev \in ScannedDevices : BleScanResult(dev)
    \/ \E stops \in BOOLEAN : BleScanError(stops)
    \/ BleStopScan
    \/ BleScanTimerFires
    \/ CnStartScan
    \/ \E state \in {"PoweredOn", "PoweredOff", "throw"} :
           CnInitializeSettles(state)
    \/ \E on \in BOOLEAN : AdapterStateChanges(on)
    \/ \E dev \in ScannedDevices : CnScanResult(dev)
    \/ CnScanTimerFires
    \/ CnScanningTimerFires

\* The steps of the scans that the user does not take: promises settle and
\* timers run out.
ScanSystemNext ==
    \/ \E state \in {"PoweredOn", "PoweredOff", "throw"} :
           CnInitializeSettles(state)
    \/ CnScanTimerFires
    \/ CnScanningTimerFires
    \/ BleScanTimerFires

(***************************************************************************)
(* ControlScreen: the command dispatch of app/index.tsx                    *)
(***************************************************************************)

\* How many commands one session's log holds; a handler that would send
\* more is not run.
MaxSent == 5

\* How many "+" timers, gear-change timers and initCommands runs may be
\* pending at once; a handler that would start more is not run.
MaxPlusTimers == 3

MaxGearTimers == 1

MaxInits == 1

Gears == {"1", "2", "R"}

\* Joystick samples <<x, y>>, in thousandths: centre, full forward, full
\* right, full left.
Samples == {<<0, 0>>, <<0, 1000>>, <<1000, 0>>, <<-1000, 0>>}

Abs(n) == IF n < 0 THEN -n ELSE n

\* const deadzone = 0.15, in thousandths.
deadzone == 150

\* const turnThreshold = 0.6, in thousandths.
turnThreshold == 600

\* directionCommand of handleJoystickMove.
\* The classification with a turn for every strongly sideways sample.
DirectionCommand_NoAxisPriority(s, gear) ==
    LET x == s[1]
        y == s[2]
    IN IF Abs(x) > turnThreshold
       THEN (IF x > 0 THEN "R" ELSE "L")
       ELSE IF Abs(y) > deadzone /\ y > 0
            THEN (IF gear = "R" THEN "B" ELSE "F")
            ELSE "S"

DirectionCommand(s, gear) ==
    LET x == s[1]
        y == s[2]
        isStrongSidewaysMovement == Abs(x) > turnThreshold
        hasForwardMovement == Abs(y) > deadzone
    IN IF isStrongSidewaysMovement /\ Abs(x) > Abs(y)
       THEN (IF x > 0 THEN "R" ELSE "L")
       ELSE IF hasForwardMovement
            THEN (IF y > 0 /\ gear \in {"1", "2"} THEN "F"
                  ELSE IF y > 0 /\ gear = "R" THEN "B"
                  ELSE "S")
            ELSE "S"

IsTurning(dir) == dir \in {"L", "R"}

\* The "+" commands handleJoystickMove sends at once for an edge.
ImmediateIncrements(gear, dir) == IF gear \in {"1", "2"} THEN 1 ELSE 0

\* The "+" commands it schedules with setTimeout for an edge.
DelayedIncrements(gear, dir) ==
    IF gear = "2" THEN (IF IsTurning(dir) THEN 1 ELSE 3)
    ELSE IF gear = "1" THEN (IF IsTurning(dir) THEN 0 ELSE 1)
    ELSE 0

MaxSpeed_Flat(gear) == 100

\* const maxSpeed = gear === "2" ? 255 : 100.
MaxSpeed(gear) == IF gear = "2" THEN 255 ELSE 100

MaxToken(n) == IF n = 255 THEN "MAX:255" ELSE "MAX:100"

Repeat(x, n) == [i \in 1..n |-> x]

\* if (!sendCommandFn || !connectedDeviceId) return, negated.
AppConnected == sendCommandFn /\ connectedDeviceId # NULL

AppInit ==
    /\ connectedDeviceId = NULL
    /\ sendCommandFn = FALSE
    /\ lastCommandRef = NULL
    /\ speedSentRef = FALSE
    /\ currentGear = "1"
    /\ plusTimers = 0
    /\ maxTimers = [n \in {100, 255} |-> 0]
    /\ initPending = 0
    /\ sent = <<>>
    /\ hIntent = NULL
    /\ hChanges = 0
    /\ hDirTokens = 0
    /\ hScenario = "start"
    /\ hGear = "none"

\* hScenario after one more handler call e (an intent, or "release",
\* "gear").
Followed(e) ==
    IF hScenario = "start" /\ e = "F" THEN "F"
    ELSE IF hScenario = "F" /\ e = "F" THEN "FF"
    ELSE IF hScenario = "FF" /\ e \in {"S", "release"} THEN "FFStop"
    ELSE "off"

FirstInitCommand_Max == "MAX:100"

\* The command initCommands sends first: await sendCommand("/").
FirstInitCommand == "/"

\* handleConnected(deviceId, sendCommand): the state is set and initCommands
\* runs up to its first await, having called sendCommand("/").
HandleConnectedEffect(d) ==
    /\ connectedDeviceId' = d
    /\ sendCommandFn' = TRUE
    /\ sent' = <<FirstInitCommand>>
    /\ initPending' = initPending + 1
    /\ initPending < MaxInits
    /\ hChanges' = 0
    /\ hDirTokens' = 0
    /\ hScenario' = IF hIntent = NULL THEN "start" ELSE "off"
    /\ UNCHANGED <<hIntent, hGear, lastCommandRef, speedSentRef, currentGear,
                   plusTimers, maxTimers>>

\* handleConnected called with nothing else going on.
HandleConnected(d) == HandleConnectedEffect(d) /\ AppFrame

\* initCommands after sendCommand("/") resolved and the 200 ms passed:
\* sendCommand("MAX:100").
InitSendsMax ==
    /\ initPending > 0
    /\ Len(sent) < MaxSent
    /\ initPending' = initPending - 1
    /\ sent' = Append(sent, "MAX:100")
    /\ UNCHANGED <<connectedDeviceId, sendCommandFn, lastCommandRef,
                   speedSentRef, currentGear, plusTimers, maxTimers, hIntent, hChanges,
                   hDirTokens, hScenario, hGear>>
    /\ AppFrame

\* handleDisconnected().
HandleDisconnectedEffect ==
    /\ connectedDeviceId' = NULL
    /\ sendCommandFn' = FALSE
    /\ UNCHANGED <<lastCommandRef, speedSentRef, currentGear, plusTimers, maxTimers, initPending,
                   sent, hIntent, hChanges, hDirTokens, hScenario,
                   hGear>>

\* handleDisconnected called with nothing else going on.
HandleDisconnected == HandleDisconnectedEffect /\ AppFrame

DirectionChanged_Always(dir, last) == TRUE

\* if (directionCommand !== lastCommandRef.current): is the direction sent?
DirectionChanged(dir, last) == dir # last

\* handleJoystickMove(data).  It returns at once while not connected.
\* (setJoystickData and setMotorSpeeds feed the display only and are not
\* modelled.)
HandleJoystickMove(s) ==
    /\ IF AppConnected
       THEN LET dir == DirectionCommand(s, currentGear)
                edge == DirectionChanged(dir, lastCommandRef)
                speedSent == IF edge THEN FALSE ELSE speedSentRef
                speed == dir # "S" /\ ~speedSent
                out == (IF edge THEN <<dir>> ELSE <<>>)
                       \o (IF speed
                           THEN Repeat("+",
                                       ImmediateIncrements(currentGear, dir))
                           ELSE <<>>)
                timers == IF speed
                          THEN plusTimers
                               + DelayedIncrements(currentGear, dir)
                          ELSE plusTimers
            IN /\ Len(sent) + Len(out) <= MaxSent
               /\ timers <= MaxPlusTimers
               /\ sent' = sent \o out
               /\ lastCommandRef' = IF edge THEN dir ELSE lastCommandRef
               /\ speedSentRef' = IF speed THEN TRUE ELSE speedSent
               /\ plusTimers' = timers
               /\ hChanges' = IF dir # hIntent THEN hChanges + 1
                              ELSE hChanges
               /\ hDirTokens' = IF edge THEN hDirTokens + 1 ELSE hDirTokens
               /\ hIntent' = dir
               /\ hScenario' = Followed(dir)
               /\ hGear' = IF hGear = dir THEN "same" ELSE "none"
       ELSE UNCHANGED <<sent, lastCommandRef, speedSentRef, plusTimers,
                        hChanges, hDirTokens, hIntent, hScenario, hGear>>
    /\ UNCHANGED <<connectedDeviceId, sendCommandFn, currentGear, maxTimers,
                   initPending>>
    /\ AppFrame

\* One of the setTimeout(() => sendCommandFn("+")) callbacks runs.
PlusTimerFires ==
    /\ plusTimers > 0
    /\ Len(sent) < MaxSent
    /\ plusTimers' = plusTimers - 1
    /\ sent' = Append(sent, "+")
    /\ UNCHANGED <<connectedDeviceId, sendCommandFn, lastCommandRef,
                   speedSentRef, currentGear, maxTimers, initPending, hIntent, hChanges,
                   hDirTokens, hScenario, hGear>>
    /\ AppFrame

StopCommands_Twice(connected) == IF connected THEN <<"S", "S">> ELSE <<>>

\* The commands handleJoystickStop sends.
StopCommands(connected) == IF connected THEN <<"S">> ELSE <<>>

\* handleJoystickStop(): the joystick was released.
HandleJoystickStop ==
    /\ Len(sent) + Len(StopCommands(AppConnected)) <= MaxSent
    /\ lastCommandRef' = NULL
    /\ speedSentRef' = FALSE
    /\ sent' = sent \o StopCommands(AppConnected)
    /\ hIntent' = NULL
    /\ hScenario' = IF AppConnected THEN Followed("release") ELSE hScenario
    /\ UNCHANGED <<connectedDeviceId, sendCommandFn, currentGear, plusTimers,
                   maxTimers, initPending, hChanges, hDirTokens, hGear>>
    /\ AppFrame

\* handleGearChange(gear), called by GearSelector.updateGear when the gear
\* selected differs from the one before.
HandleGearChange(gear) ==
    /\ gear # currentGear
    /\ currentGear' = gear
    /\ speedSentRef' = FALSE
    /\ IF AppConnected
       THEN /\ Len(sent) < MaxSent
            /\ maxTimers[100] + maxTimers[255] < MaxGearTimers
            /\ sent' = Append(sent, "S")
            /\ lastCommandRef' = NULL
            /\ maxTimers' = [maxTimers EXCEPT ![MaxSpeed(gear)] = @ + 1]
            /\ hIntent' = NULL
            /\ hScenario' = Followed("gear")
            /\ hGear' = hIntent
       ELSE UNCHANGED <<sent, lastCommandRef, maxTimers, hIntent, hScenario,
                        hGear>>
    /\ UNCHANGED <<connectedDeviceId, sendCommandFn, plusTimers, initPending, hChanges,
                   hDirTokens>>
    /\ AppFrame

\* The setTimeout callback of a gear change runs: sendCommandFn(MAX:n).
MaxTimerFires(n) ==
    /\ maxTimers[n] > 0
    /\ Len(sent) < MaxSent
    /\ maxTimers' = [maxTimers EXCEPT ![n] = @ - 1]
    /\ sent' = Append(sent, MaxToken(n))
    /\ UNCHANGED <<connectedDeviceId, sendCommandFn, lastCommandRef,
                   speedSentRef, currentGear, plusTimers, initPending, hIntent, hChanges,
                   hDirTokens, hScenario, hGear>>
    /\ AppFrame

AppNext ==
    \/ \E d \in Devices : HandleConnected(d)
    \/ InitSendsMax
    \/ HandleDisconnected
    \/ \E s \in Samples : HandleJoystickMove(s)
    \/ PlusTimerFires
    \/ HandleJoystickStop
    \/ \E g \in Gears : HandleGearChange(g)
    \/ \E n \in {100, 255} : MaxTimerFires(n)

(***************************************************************************)
(* The claw: ClawControl.handlePress and handleClawToggle                  *)
(***************************************************************************)

\* How many handlePress calls may await the haptic tap at once.
MaxClawPresses == 2

ClawInit ==
    /\ clawIsClosed = FALSE
    /\ clawOpen = FALSE
    /\ clawPresses = [closed \in BOOLEAN |-> 0]

\* The claw token for the opposite state.
ClawCommand_Inverted(isOpen) == IF isOpen THEN "C" ELSE "O"

\* const command = isOpen ? "O" : "C"
ClawCommand(isOpen) == IF isOpen THEN "O" ELSE "C"

\* The button is pressed: handlePress of the current render starts and
\* awaits HapticService.mediumTap().
ClawPress ==
    /\ clawPresses[TRUE] + clawPresses[FALSE] < MaxClawPresses
    /\ clawPresses' = [clawPresses EXCEPT ![clawIsClosed] = @ + 1]
    /\ UNCHANGED <<clawIsClosed, clawOpen, appVars>>
    /\ ClawFrame

\* The haptic tap of a handlePress that captured isClosed = closed is over:
\* setIsClosed(!closed) and onToggle(closed), which is handleClawToggle:
\* toggleClaw(), and the claw command when connected.
ClawToggled(closed) ==
    /\ clawPresses[closed] > 0
    /\ clawPresses' = [clawPresses EXCEPT ![closed] = @ - 1]
    /\ clawIsClosed' = ~closed
    /\ clawOpen' = ~clawOpen
    /\ IF AppConnected
       THEN /\ Len(sent) < MaxSent
            /\ sent' = Append(sent, ClawCommand(closed))
       ELSE UNCHANGED sent
    /\ UNCHANGED <<connectedDeviceId, sendCommandFn, lastCommandRef,
                   speedSentRef, currentGear, plusTimers, maxTimers,
                   initPending, hIntent, hChanges, hDirTokens, hScenario,
                   hGear>>
    /\ ClawFrame

\* The handlers of the control screen with the claw button.  The timer
\* callbacks, which read and write nothing of the claw, are left pending.
ClawNext ==
    \/ \E d \in Devices : HandleConnected(d)
    \/ HandleDisconnected
    \/ \E s \in Samples : HandleJoystickMove(s)
    \/ HandleJoystickStop
    \/ \E g \in Gears : HandleGearChange(g)
    \/ ClawPress
    \/ \E closed \in BOOLEAN : ClawToggled(closed)

(***************************************************************************)
(* Joystick input: JoystickMath.normalize, detectCardinalDirection and the *)
(* classification of handleJoystickMove.  A number of the code is an       *)
(* integer count of thousandths here (0.15 is 150), an angle is in whole   *)
(* degrees rounded down, and a raw offset is a whole number of pixels.     *)
(***************************************************************************)

\* One, in thousandths.
One == 1000

\* Joystick's maxDistance for its default size of 150: radius - stickSize / 2.
maxDistance == 50

\* Joystick's default deadzone, 0.1.
deadzoneFraction == 100

\* The raw offsets tried, per axis.
RawValues ==
    {-100, -50, -40, -36, -35, -30, -10, -4, -3, 0,
     3, 4, 10, 30, 35, 36, 40, 50, 100}

\* a / b rounded towards zero, for b > 0.
Quotient(a, b) == IF a >= 0 THEN a \div b ELSE -((-a) \div b)

Min(a, b) == IF a <= b THEN a ELSE b

RECURSIVE SqrtIn(_, _, _)
\* The largest r in lo..hi with r * r <= n.
SqrtIn(n, lo, hi) ==
    IF lo = hi THEN lo
    ELSE LET mid == (lo + hi + 1) \div 2
         IN IF mid * mid <= n THEN SqrtIn(n, mid, hi)
            ELSE SqrtIn(n, lo, mid - 1)

\* Math.sqrt(dx * dx + dy * dy), in hundredths of a pixel.
RawDistance(dx, dy) == SqrtIn((dx * dx + dy * dy) * 10000, 0, 20000)

\* tan(k degrees) in millionths, for k = 0..45, at index k + 1.
TanTable ==
    <<
      0, 17455, 34921, 52408, 69927, 87489, 105104, 122785,
      140541, 158384, 176327, 194380, 212557, 230868, 249328, 267949,
      286745, 305731, 324920, 344328, 363970, 383864, 404026, 424475,
      445229, 466308, 487733, 509525, 531709, 554309, 577350, 600861,
      624869, 649408, 674509, 700208, 726543, 753554, 781286, 809784,
      839100, 869287, 900404, 932515, 965689, 1000000>>

\* Math.atan of num / den in whole degrees, rounded down, for 0 <= num <= den
\* and den > 0.
AtanFloor(num, den) ==
    CHOOSE k \in 0..45 :
        /\ TanTable[k + 1] * den <= num * 1000000
        /\ k < 45 => TanTable[k + 2] * den > num * 1000000

\* The angle of (a, b), a >= 0, b >= 0, not both 0, measured from the first
\* axis, rounded down and rounded up.
BaseFloor(a, b) ==
    IF b <= a THEN AtanFloor(b, a)
    ELSE 90 - (IF a = 0 THEN 0 ELSE AtanFloor(a, b) + 1)

BaseCeil(a, b) ==
    IF b = 0 \/ a = 0 \/ a = b THEN BaseFloor(a, b) ELSE BaseFloor(a, b) + 1

\* (Math.atan2(dy, dx) * 180) / Math.PI, rounded down.
AngleDeg(dy, dx) ==
    IF dx = 0 /\ dy = 0 THEN 0
    ELSE IF dx >= 0 /\ dy >= 0 THEN BaseFloor(dx, dy)
    ELSE IF dx >= 0 THEN -BaseCeil(dx, -dy)
    ELSE IF dy >= 0 THEN 180 - BaseCeil(-dx, dy)
    ELSE BaseFloor(-dx, -dy) - 180

\* The sample normalize returns below the deadzone.
ZeroSample == [x |-> 0, y |-> 0, angle |-> 0, distance |-> 0, raw |-> <<0, 0>>]

\* The deadzone test against half the distance.
InDeadzone_Half(rawDistance, max, dz) == rawDistance * 2000 < max * 100 * dz

\* rawDistance < maxDistance * deadzone
InDeadzone(rawDistance, max, dz) == rawDistance * 1000 < max * 100 * dz

\* Math.min(rawDistance, maxDistance) without the limit.
ClampedDistance_Unclamped(rawDistance, max) == rawDistance

\* Math.min(rawDistance, maxDistance), in hundredths of a pixel.
ClampedDistance(rawDistance, max) == Min(rawDistance, max * 100)

\* JoystickMath.normalize(dx, dy, max, deadzone)
Normalize(dx, dy, max, dz) ==
    LET rawDistance == RawDistance(dx, dy)
        clampedDistance == ClampedDistance(rawDistance, max)
    IN IF InDeadzone(rawDistance, max, dz)
       THEN ZeroSample
       ELSE [x |-> Quotient(dx * clampedDistance * 10, max * max),
             y |-> -Quotient(dy * clampedDistance * 10, max * max),
             angle |-> AngleDeg(dy, dx),
             distance |-> Quotient(clampedDistance * 10, max),
             raw |-> <<dx, dy>>]

\* The default quadrantThreshold of detectCardinalDirection.
quadrantThreshold == 45

\* The distance below which detectCardinalDirection answers CENTER, 0.15.
centerThreshold == 150

\* if (angle < 0) angle += 360, left out.
NormalizedAngle_Signed(angle) == angle

\* if (angle < 0) angle += 360
NormalizedAngle(angle) == IF angle < 0 THEN angle + 360 ELSE angle

\* JoystickMath.detectCardinalDirection(data, q)
DetectCardinalDirection(data, q) ==
    IF data.distance < centerThreshold THEN "CENTER"
    ELSE LET angle == NormalizedAngle(data.angle)
         IN IF angle >= 360 - q \/ angle < q THEN "EAST"
            ELSE IF angle >= q /\ angle < 90 + q THEN "SOUTH"
            ELSE IF angle >= 90 + q /\ angle < 180 + q THEN "WEST"
            ELSE IF angle >= 180 + q /\ angle < 270 + q THEN "NORTH"
            ELSE "CENTER"

JoyInit ==
    /\ joyRaw = <<0, 0>>
    /\ joyData = ZeroSample
    /\ joyGear = "1"
    /\ joyCommand = NULL
    /\ joyCardinal = "none"

\* Joystick's updateJoystickPosition(dx, dy): normalize, then onMove(data),
\* which is handleJoystickMove; its classification of the sample while
\* connected, in the gear of that moment.
UpdateJoystickPosition(dx, dy, gear) ==
    /\ joyRaw' = <<dx, dy>>
    /\ joyData' = Normalize(dx, dy, maxDistance, deadzoneFraction)
    /\ joyGear' = gear
    /\ joyCommand' = DirectionCommand(<<joyData'.x, joyData'.y>>, gear)
    /\ joyCardinal' = "none"
    /\ JoyFrame

\* A call of detectCardinalDirection with the current sample.
DetectDirection ==
    /\ joyCardinal = "none"
    /\ joyCardinal' = DetectCardinalDirection(joyData, quadrantThreshold)
    /\ UNCHANGED <<joyRaw, joyData, joyGear, joyCommand>>
    /\ JoyFrame

\* The state after updateJoystickPosition depends on its arguments and the
\* gear only, so every (dx, dy, gear) is reached by changing one at a time.
JoyNext ==
    \/ \E dx \in RawValues : UpdateJoystickPosition(dx, joyRaw[2], joyGear)
    \/ \E dy \in RawValues : UpdateJoystickPosition(joyRaw[1], dy, joyGear)
    \/ \E gear \in Gears : UpdateJoystickPosition(joyRaw[1], joyRaw[2], gear)
    \/ DetectDirection

(***************************************************************************)
(* BluetoothService: connection and command queue                          *)
(***************************************************************************)

\* How many commands the queue may hold in a run; a producer that would
\* make it longer is not run (the code has no such limit).
MaxQueue == 3

\* How many setInterval timers may be running; a connect call that could
\* start one more is not run.
MaxIntervals == 2

\* How many connect calls may be in flight at once.
MaxSvcCalls == 1

\* How many disconnect calls may be awaiting the transport at once.
MaxSvcDisc == 1

\* How many characteristic writes of the service may be unsettled at once; a
\* tick that would start one more is not run.
MaxSvcWrites == 2

SvcCalls == 1..MaxSvcCalls

\* MotorCommand.type
CommandTypes == {"joystick", "stop", "brake", "gear", "claw"}

SvcIdleCall == [pc |-> "idle", dev |-> NULL]

\* svcLastWrite before any write.
NoWrite == [type |-> NULL, old |-> FALSE]

SvcInit ==
    /\ svcIsConnected = FALSE
    /\ svcConnectedDevice = NULL
    /\ svcWriteCharacteristic = FALSE
    /\ svcCommandQueue = <<>>
    /\ svcSendInterval = FALSE
    /\ svcIntervals = 0
    /\ svcCalls = [c \in SvcCalls |-> SvcIdleCall]
    /\ svcDisc = 0
    /\ svcLastWrite = NoWrite
    /\ svcWrites = 0

SvcInFlight == Cardinality({c \in SvcCalls : svcCalls[c].pc # "idle"})

\* connect(deviceId) up to await bleManager.connectToDevice().
SvcConnect(c, d) ==
    /\ svcCalls[c].pc = "idle"
    /\ \A b \in SvcCalls : b < c => svcCalls[b].pc # "idle"
    /\ svcIntervals + SvcInFlight < MaxIntervals
    /\ svcCalls' = [svcCalls EXCEPT ![c] = [pc |-> "connecting", dev |-> d]]
    /\ UNCHANGED <<svcIsConnected, svcConnectedDevice, svcWriteCharacteristic,
                   svcCommandQueue, svcSendInterval, svcIntervals, svcDisc,
                   svcLastWrite, svcWrites>>
    /\ SvcFrame

\* The catch of connect: isConnected = false, connectedDevice = null,
\* return false.  The queue and the timer are left as they are.
SvcConnectFails(c) ==
    /\ svcIsConnected' = FALSE
    /\ svcConnectedDevice' = NULL
    /\ svcCalls' = [svcCalls EXCEPT ![c] = SvcIdleCall]
    /\ UNCHANGED <<svcCommandQueue, svcSendInterval, svcIntervals, svcDisc,
                   svcLastWrite, svcWrites>>

\* bleManager.connectToDevice() settles.
SvcConnectSettles(c, outcome) ==
    /\ svcCalls[c].pc = "connecting"
    /\ IF outcome = "device"
       THEN /\ svcConnectedDevice' = svcCalls[c].dev
            /\ svcCalls' = [svcCalls EXCEPT ![c].pc = "discovering"]
            /\ UNCHANGED <<svcIsConnected, svcWriteCharacteristic,
                           svcCommandQueue, svcSendInterval, svcIntervals,
                           svcDisc, svcLastWrite, svcWrites>>
       ELSE /\ SvcConnectFails(c)
            /\ UNCHANGED svcWriteCharacteristic
    /\ SvcFrame

\* device.discoverAllServicesAndCharacteristics() settles.
SvcDiscoverSettles(c, outcome) ==
    /\ svcCalls[c].pc = "discovering"
    /\ IF outcome = "ok"
       THEN /\ svcCalls' = [svcCalls EXCEPT ![c].pc = "characteristics"]
            /\ UNCHANGED <<svcIsConnected, svcConnectedDevice,
                           svcWriteCharacteristic, svcCommandQueue,
                           svcSendInterval, svcIntervals, svcDisc,
                           svcLastWrite, svcWrites>>
       ELSE /\ SvcConnectFails(c)
            /\ UNCHANGED svcWriteCharacteristic
    /\ SvcFrame

\* The queue when a session starts: what it holds was enqueued before.
MarkedOld(q) == [i \in 1..Len(q) |-> [q[i] EXCEPT !.old = TRUE]]

\* device.characteristicsForService() settles: with the write
\* characteristic among the result ("found"), without it, or by throwing.
\* On "found": isConnected = true and startCommandQueue().
SvcCharacteristicsSettles(c, outcome) ==
    /\ svcCalls[c].pc = "characteristics"
    /\ IF outcome = "found"
       THEN /\ svcWriteCharacteristic' = TRUE
            /\ svcIsConnected' = TRUE
            /\ svcSendInterval' = TRUE
            /\ svcIntervals' = svcIntervals + 1
            /\ svcCommandQueue' = MarkedOld(svcCommandQueue)
            /\ svcCalls' = [svcCalls EXCEPT ![c] = SvcIdleCall]
            /\ UNCHANGED <<svcConnectedDevice, svcDisc, svcLastWrite,
                           svcWrites>>
       ELSE /\ svcWriteCharacteristic' =
                   IF outcome = "notfound" THEN FALSE
                   ELSE svcWriteCharacteristic
            /\ SvcConnectFails(c)
    /\ SvcFrame

\* stopCommandQueue(): the timer sendInterval refers to is cleared, and
\* the queue is emptied.
SvcStopCommandQueue ==
    /\ svcIntervals' = IF svcSendInterval THEN svcIntervals - 1
                       ELSE svcIntervals
    /\ svcSendInterval' = FALSE
    /\ svcCommandQueue' = <<>>

\* disconnect() up to await connectedDevice.cancelConnection(), or to its
\* end when there is no connectedDevice.
SvcDisconnect ==
    /\ svcIsConnected' = FALSE
    /\ SvcStopCommandQueue
    /\ IF svcConnectedDevice # NULL
       THEN /\ svcDisc < MaxSvcDisc
            /\ svcDisc' = svcDisc + 1
       ELSE UNCHANGED svcDisc
    /\ UNCHANGED <<svcConnectedDevice, svcWriteCharacteristic, svcCalls,
                   svcLastWrite, svcWrites>>
    /\ SvcFrame

\* cancelConnection() settles; when it throws the error is only logged.
SvcDisconnectSettles(outcome) ==
    /\ svcDisc > 0
    /\ svcDisc' = svcDisc - 1
    /\ IF outcome = "ok"
       THEN /\ svcConnectedDevice' = NULL
            /\ svcWriteCharacteristic' = FALSE
       ELSE UNCHANGED <<svcConnectedDevice, svcWriteCharacteristic>>
    /\ UNCHANGED <<svcIsConnected, svcCommandQueue, svcSendInterval,
                   svcIntervals, svcCalls, svcLastWrite, svcWrites>>
    /\ SvcFrame

\* The queue after a producer pushed a command of the given type.
Pushed(q, type) == Append(q, [type |-> type, old |-> FALSE])

\* A producer: if (!this.isConnected) return; this.commandQueue.push(command).
SvcEnqueue(type) ==
    IF svcIsConnected
    THEN /\ Len(svcCommandQueue) < MaxQueue
         /\ svcCommandQueue' = Pushed(svcCommandQueue, type)
    ELSE UNCHANGED svcCommandQueue

\* What a producer leaves alone.
SvcProducerFrame ==
    UNCHANGED <<svcIsConnected, svcConnectedDevice, svcWriteCharacteristic,
                svcSendInterval, svcIntervals, svcCalls, svcDisc,
                svcLastWrite, svcWrites>>

\* sendMotorCommand(leftSpeed, rightSpeed, gear)
SendMotorCommand ==
    /\ SvcEnqueue("joystick")
    /\ SvcProducerFrame
    /\ SvcFrame

\* sendStopCommand()
SendStopCommand ==
    /\ SvcEnqueue("stop")
    /\ SvcProducerFrame
    /\ SvcFrame

\* sendBrakeCommand()
SendBrakeCommand ==
    /\ SvcEnqueue("brake")
    /\ SvcProducerFrame
    /\ SvcFrame

\* changeGear(gear)
ChangeGear ==
    /\ SvcEnqueue("gear")
    /\ SvcProducerFrame
    /\ SvcFrame

\* toggleClaw(isOpen)
ToggleClaw ==
    /\ SvcEnqueue("claw")
    /\ SvcProducerFrame
    /\ SvcFrame

\* The guard of processCommand, negated: the command is written.
SvcCanWrite ==
    svcIsConnected /\ svcWriteCharacteristic /\ svcConnectedDevice # NULL

\* The setInterval callback, waiting for the write it started before it
\* takes the next command.
TickTakesCommand_AfterWrite(writes) == writes = 0

\* The setInterval callback takes the head of the queue whenever there is
\* one: processCommand is called without await, so the writes that have not
\* settled do not hold it back.
TickTakesCommand(writes) == TRUE

\* One run of a setInterval callback: the head of the queue, if any, is
\* taken off and given to processCommand, which starts to write it or
\* returns.
SvcTick ==
    /\ svcIntervals > 0
    /\ IF svcCommandQueue # <<>>
       THEN /\ TickTakesCommand(svcWrites)
            /\ svcCommandQueue' = Tail(svcCommandQueue)
            /\ IF SvcCanWrite
               THEN /\ svcWrites < MaxSvcWrites
                    /\ svcWrites' = svcWrites + 1
                    /\ svcLastWrite' = Head(svcCommandQueue)
               ELSE UNCHANGED <<svcLastWrite, svcWrites>>
       ELSE UNCHANGED <<svcCommandQueue, svcLastWrite, svcWrites>>
    /\ UNCHANGED <<svcIsConnected, svcConnectedDevice, svcWriteCharacteristic,
                   svcSendInterval, svcIntervals, svcCalls, svcDisc>>
    /\ SvcFrame

\* writeCharacteristicWithResponseForService() of processCommand settles;
\* when it throws the error is only logged.
SvcWriteSettles(outcome) ==
    /\ svcWrites > 0
    /\ svcWrites' = svcWrites - 1
    /\ UNCHANGED <<svcIsConnected, svcConnectedDevice, svcWriteCharacteristic,
                   svcCommandQueue, svcSendInterval, svcIntervals, svcCalls,
                   svcDisc, svcLastWrite>>
    /\ SvcFrame

SvcNext ==
    \/ \E c \in SvcCalls, d \in Devices : SvcConnect(c, d)
    \/ \E c \in SvcCalls, o \in {"device", "throw"} : SvcConnectSettles(c, o)
    \/ \E c \in SvcCalls, o \in {"ok", "throw"} : SvcDiscoverSettles(c, o)
    \/ \E c \in SvcCalls, o \in {"found", "notfound", "throw"} :
          SvcCharacteristicsSettles(c, o)
    \/ SvcDisconnect
    \/ \E o \in {"ok", "throw"} : SvcDisconnectSettles(o)
    \/ SendMotorCommand
    \/ SendStopCommand
    \/ SendBrakeCommand
    \/ ChangeGear
    \/ ToggleClaw
    \/ SvcTick
    \/ \E o \in {"ok", "throw"} : SvcWriteSettles(o)

(***************************************************************************)
(* BluetoothConnectorV2: useBle wired to the control screen                *)
(***************************************************************************)

\* What the steps of the connector leave alone.
V2Frame == UNCHANGED <<clVars, svcVars, scanVars, joyVars, clawVars>>

\* handleDeviceSelect after await connectToDevice(selectedDevice): when the
\* call has returned, onConnected(selectedDevice.id, sendCommand) is called.
OnConnectedAfter(c) ==
    IF bleCalls'[c].pc = "done" THEN HandleConnectedEffect(bleCalls[c].dev)
    ELSE UNCHANGED appVars

\* A promise of the connectToDevice that handleDeviceSelect awaits settles.
V2ConnectSettles(c, outcome) ==
    /\ BleConnectSettled(c, outcome)
    /\ OnConnectedAfter(c)
    /\ V2Frame

V2DiscoverSettles(c, outcome) ==
    /\ BleDiscoverSettled(c, outcome)
    /\ OnConnectedAfter(c)
    /\ V2Frame

V2ListingSettles(c, outcome) ==
    /\ BleListingSettled(c, outcome)
    /\ OnConnectedAfter(c)
    /\ V2Frame

\* handleConnectPress with connectedDeviceId set: handleDisconnect, up to
\* the await in disconnectDevice().
V2HandleDisconnect ==
    /\ bleConnectedDeviceId # NULL
    /\ BleDisconnectDevice

\* handleDisconnect after await disconnectDevice(): onDisconnected().
V2DisconnectSettles(d, outcome, closed) ==
    /\ BleDisconnectSettled(d, outcome, closed)
    /\ HandleDisconnectedEffect
    /\ V2Frame

\* The hook's sendCommand, run for a call of the screen: the screen calls
\* it while it holds sendCommandFn and a connectedDeviceId.
V2SendCommand(cmd) ==
    /\ AppConnected
    /\ BleSendCommand(cmd)

V2SendCommandNoDevice ==
    /\ AppConnected
    /\ BleSendCommandNoDevice

ConnectorNext ==
    \/ \E c \in BleCalls, d \in Devices :
           BleFreeSlot(c) /\ BleConnectToDevice(c, d)
    \/ \E c \in BleCalls, o \in {"device", "undefined", "throw"} :
           V2ConnectSettles(c, o)
    \/ \E c \in BleCalls, o \in {"ok", "throw"} : V2DiscoverSettles(c, o)
    \/ \E c \in BleCalls, o \in {"ok", "throw"} : V2ListingSettles(c, o)
    \/ InitSendsMax
    \/ V2HandleDisconnect
    \/ \E d \in Devices, o \in {"ok", "throw"}, closed \in BOOLEAN :
           V2DisconnectSettles(d, o, closed)
    \/ \E cmd \in Commands : V2SendCommand(cmd)
    \/ V2SendCommandNoDevice
    \/ \E i \in 1..MaxWrites, o \in {"ok", "disconnected", "other"} :
           BleWriteWithResponseSettles(i, o)
    \/ \E i \in 1..MaxWrites, o \in {"ok", "disconnected", "other"} :
           BleWriteWithoutResponseSettles(i, o)
    \/ \E d \in Devices : BleLinkDrops(d)

Init == ClInit /\ BleInit /\ AppInit /\ SvcInit /\ CnInit /\ JoyInit
        /\ ClawInit

SpecClassic == Init /\ [][ClNext]_vars

\* Every promise settles and every timer runs out; the user is free.
SpecClassicLive == Init /\ [][ClNext]_vars /\ WF_vars(ClSystemNext)

SpecBle == Init /\ [][BleNext]_vars

SpecApp == Init /\ [][AppNext]_vars

SpecService == Init /\ [][SvcNext]_vars

SpecScan == Init /\ [][ScanNext]_vars

\* Every promise of a scan settles and every scan timer runs out; the user
\* and the adapter are free.
SpecScanLive == Init /\ [][ScanNext]_vars /\ WF_vars(ScanSystemNext)

SpecJoystick == Init /\ [][JoyNext]_vars

SpecClaw == Init /\ [][ClawNext]_vars

SpecConnector == Init /\ [][ConnectorNext]_vars

(***************************************************************************)
(* Connection lifecycle of useBluetoothClassic                             *)
(***************************************************************************)

\* C1: one connectToDevice call calls the transport's connect() at most three
\* times, whatever the calls return, and a call that ends without a
\* connection has made exactly three attempts (no fourth one).
C1_AtMostThreeAttempts ==
    \A c \in Calls :
        /\ clCalls[c].connectCalls <= 3
        /\ clCalls[c].attempt <= 3
        /\ (clCalls[c].pc = "done" /\ ~clCalls[c].connected)
               => clCalls[c].connectCalls = 3

\* A call whose three attempts all failed has returned.
C1_Witness ==
    \E c \in Calls :
        /\ clCalls[c].pc = "done"
        /\ ~clCalls[c].connected
        /\ clCalls[c].connectCalls = 3

\* C2: when all three attempts have failed, the hook shows a state that a
\* caller can tell from that of a hook that never tried to connect.
C2_FailureObservable ==
    \A c \in Calls :
        (clCalls[c].pc = "done" /\ ~clCalls[c].connected)
            => ClView \notin ClNeverConnectedViews

\* C3: a device that is not bonded is paired exactly once, before the first
\* connect attempt; a bonded one is never paired; whatever pairDevice does
\* (true, false, a throw) the connect attempts follow; and when the first
\* attempt succeeds the hook holds the device (Connected).
C3_PairOnceThenConnect ==
    /\ [](\A c \in Calls :
            LET k == clCalls[c] IN
            /\ k.pairCalls <= 1
            /\ (k.pc # "idle" /\ k.bonded) => k.pairCalls = 0
            /\ (k.pc # "idle" /\ ~k.bonded) => k.pairCalls = 1
            /\ k.pc \in {"pairing", "pairWait", "getBonded"}
                   => k.connectCalls = 0
            /\ k.connectCalls >= 1 => k.pc \in {"connecting", "backoff", "done"}
            /\ k.pc = "done" => k.connectCalls >= 1)
    /\ [][\A c \in Calls :
            /\ (clCalls[c].pc = "pairing" /\ clCalls'[c].pc # "pairing")
                   => clCalls'[c].pc \in {"pairWait", "connecting"}
            /\ (clCalls[c].pc = "connecting" /\ clCalls[c].attempt = 1
                  /\ clCalls'[c].pc = "done" /\ clCalls'[c].connected)
                   => /\ clDeviceRef' = clCalls[c].dev
                      /\ clConnectedDeviceId' = clCalls[c].dev]_vars

\* Scenario A: not bonded, pairDevice returned false, the first attempt
\* succeeded and the hook holds the device.
C3_Witness ==
    \E c \in Calls :
        /\ ~clCalls[c].bonded
        /\ clCalls[c].paired = "false"
        /\ clCalls[c].pairCalls = 1
        /\ clCalls[c].pc = "done"
        /\ clCalls[c].connected
        /\ clCalls[c].connectCalls = 1
        /\ clDeviceRef = clCalls[c].dev
        /\ ClConnectionState = "Connected"

\* C5: a transport write is issued only in the Connected state: not while
\* connecting, not while a disconnect is in progress, not when no device is
\* held.
C5_WriteOnlyWhenConnected ==
    [][ClWritesInFlight' > ClWritesInFlight
          => ClConnectionState = "Connected"]_vars

\* C7: when a disconnectDevice call returns, the device reference is cleared,
\* also when the transport's disconnect() threw.
C7_DisconnectAlwaysClears ==
    [][ClDiscInFlight' < ClDiscInFlight => clDeviceRef' = NULL]_vars

\* C8: disconnectDevice is idempotent: with no device held it changes nothing,
\* and two calls in a row leave what one call leaves, whatever the
\* transport's disconnect() does in each.
C8_DisconnectIdempotent ==
    \A o1, o2 \in {"ok", "throw"} :
        /\ ClAfterDisconnect(NULL, o1) = NULL
        /\ ClAfterDisconnect(ClAfterDisconnect(clDeviceRef, o1), o2)
               = ClAfterDisconnect(clDeviceRef, o1)


(***************************************************************************)
(* Sessions and writes of useBle                                           *)
(***************************************************************************)

\* C4: at most one transport session is open, and an open session is one the
\* hook refers to: none stays open unreferenced after a failed or a second
\* connect.
C4_OneReferencedSession ==
    /\ Cardinality(bleOpen) <= 1
    /\ \A d \in bleOpen : BleReferenced(d)

\* C6: a command whose write failed with an error saying the device is
\* disconnected is dropped: it is not written a second time.
C6_FailedCommandDropped ==
    \A i \in 1..Len(bleWrites) :
        ~(/\ bleWrites[i].stage = "withoutResponse"
          /\ bleWrites[i].withResponseError = "disconnected")

\* C17: At most one connectToDevice call is in progress at a time.
C17_OneConnectInFlight ==
    Cardinality({c \in BleCalls : bleCalls[c].pc \notin {"idle", "done"}}) <= 1

\* C18: Within a connectToDevice call, every connect attempt after the
\* first is started by the step that ends the 1 s delay, whichever way the
\* attempt before it failed.
C18_BackoffBeforeRetry ==
    [][\A c \in Calls :
          (/\ clCalls'[c].connectCalls > clCalls[c].connectCalls
           /\ clCalls'[c].attempt > 1)
          => clCalls[c].pc = "backoff"]_vars

\* C19: Once the user has called disconnectDevice during a connectToDevice
\* call, that call starts no further connect attempt and, when it ends, no
\* device is held.
C19_CancelStopsRetries ==
    [][\A c \in Calls :
          (clCalls[c].cancelled /\ clCalls'[c].cancelled) =>
              /\ clCalls'[c].connectCalls = clCalls[c].connectCalls
              /\ (clCalls[c].pc # "done" /\ clCalls'[c].pc = "done")
                    => clDeviceRef' = NULL]_vars

\* C20: Once stopScan was called during a scanForDevices call, that call
\* does not change the list of discovered devices any more.
C20_NoResultAfterStopScan ==
    [][clScan.stopped => clDevicesMap' = clDevicesMap]_vars

DirectionTokens == {"F", "B", "L", "R", "S"}

\* How many entries of the sequence q are in the set T.
CountIn(q, T) == Cardinality({i \in 1..Len(q) : q[i] \in T})

\* The commands a step passed to sendCommand (for a step that starts no
\* new session).
NewSent == SubSeq(sent', Len(sent) + 1, Len(sent'))

\* C9: Within a session, the number of direction tokens handleJoystickMove
\* sent equals the number of changes of classified intent along the samples
\* it processed while connected (a sample sequence starts anew at a release
\* and at a gear change, which clear the edge tracking).  A sample whose
\* intent equals that of the sample before it sends no direction token, and
\* one whose intent differs sends exactly its own token, first.
C9_EdgeTriggered ==
    /\ [](hDirTokens = hChanges)
    /\ [][\A s \in Samples :
            (AppConnected /\ HandleJoystickMove(s)) =>
                LET dir == DirectionCommand(s, currentGear)
                IN IF dir = hIntent
                   THEN CountIn(NewSent, DirectionTokens) = 0
                   ELSE /\ CountIn(NewSent, DirectionTokens) = 1
                        /\ NewSent[1] = dir]_vars

\* Two Forward samples in a row were processed and one direction token was
\* sent.
C9_Witness ==
    /\ hScenario = "FF"
    /\ hChanges = 1
    /\ hDirTokens = 1
    /\ CountIn(sent, DirectionTokens) = 1

\* C10: Every release of the joystick while connected sends exactly one S.
\* A sample sends S only when its intent is Stop and the sample before it
\* was not, so S is not repeated while the stick stays in the stop zone,
\* and no timer callback sends S.  When the calls of a session are Forward,
\* Forward, Stop (a Stop sample or a release), exactly one F and one S were
\* sent.
C10_OneStopPerStopEvent ==
    /\ [](hScenario = "FFStop" =>
            /\ CountIn(sent, {"F"}) = 1
            /\ CountIn(sent, {"S"}) = 1)
    /\ [][/\ (AppConnected /\ HandleJoystickStop) => NewSent = <<"S">>
          /\ \A s \in Samples :
                (AppConnected /\ HandleJoystickMove(s)) =>
                    CountIn(NewSent, {"S"}) =
                        IF DirectionCommand(s, currentGear) = "S"
                           /\ hIntent # "S"
                        THEN 1 ELSE 0
          /\ (PlusTimerFires \/ InitSendsMax
              \/ \E n \in {100, 255} : MaxTimerFires(n)) =>
                    CountIn(NewSent, {"S"}) = 0]_vars

\* Forward, Forward, release happened in a session, with one F and one S
\* sent.
C10_Witness ==
    /\ hScenario = "FFStop"
    /\ lastCommandRef = NULL
    /\ CountIn(sent, {"F"}) = 1
    /\ CountIn(sent, {"S"}) = 1

\* C11: A sample that changes the direction to a non-Stop one sends its
\* direction token and, after it, that edge's increments (the immediate "+"
\* commands at once, the rest by timers); every other sample, in particular
\* a later sample with the same direction, sends and schedules no "+".
C11_IncrementsOncePerEdge ==
    [][\A s \in Samples :
        (AppConnected /\ HandleJoystickMove(s)) =>
            LET dir == DirectionCommand(s, currentGear)
            IN IF dir # hIntent /\ dir # "S"
               THEN /\ NewSent = <<dir>>
                         \o Repeat("+", ImmediateIncrements(currentGear, dir))
                    /\ plusTimers' = plusTimers
                                     + DelayedIncrements(currentGear, dir)
               ELSE /\ CountIn(NewSent, {"+"}) = 0
                    /\ plusTimers' = plusTimers]_vars

\* C12: A gear change while connected sends S at once and schedules the
\* MAX command of the new gear (255 for gear 2, 100 for gears 1 and R),
\* which is therefore sent after that S, and it clears the edge tracking:
\* the first sample processed after it sends its direction token, once and
\* first, also when its intent is the one before the gear change.
C12_GearChange ==
    [][/\ \A g \in Gears :
            (AppConnected /\ HandleGearChange(g)) =>
                /\ NewSent = <<"S">>
                /\ lastCommandRef' = NULL
                /\ maxTimers' = [maxTimers EXCEPT
                                   ![IF g = "2" THEN 255 ELSE 100] = @ + 1]
       /\ \A n \in {100, 255} :
            MaxTimerFires(n) =>
                NewSent = <<IF n = 255 THEN "MAX:255" ELSE "MAX:100">>
       /\ \A s \in Samples :
            (AppConnected /\ HandleJoystickMove(s)
             /\ hGear \notin {"none", "same"}) =>
                /\ NewSent # <<>>
                /\ NewSent[1] = DirectionCommand(s, currentGear)
                /\ CountIn(NewSent, DirectionTokens) = 1]_vars

\* In one session a turn was sent, the gear was changed, and the next
\* sample, of the same intent, sent the turn again; the gear change's S is
\* in between.
C12_Witness ==
    /\ hGear = "same"
    /\ Len(sent) >= 4
    /\ \E i \in 2..(Len(sent) - 2) :
          /\ sent[i] \in {"L", "R"}
          /\ sent[i + 1] = "S"
          /\ sent[i + 2] = sent[i]

MaxTokens == {"MAX:100", "MAX:255"}

\* C16: The commands of a session start with "/", sent by handleConnected
\* itself; "/" is sent at no other time, so it is sent once per connect and
\* comes before every MAX command of the session.
C16_ResetTokenFirst ==
    /\ [](sent # <<>> =>
            /\ sent[1] = "/"
            /\ CountIn(sent, {"/"}) = 1
            /\ \A i \in 1..Len(sent) : sent[i] \in MaxTokens => i > 1)
    /\ [][IF \E d \in Devices : HandleConnected(d)
          THEN sent' = <<"/">>
          ELSE CountIn(NewSent, {"/"}) = 0]_vars

\* A session in which "/" went out first and two MAX commands after it:
\* the one of initCommands and the one of a gear change.
C16_Witness ==
    /\ AppConnected
    /\ sent[1] = "/"
    /\ CountIn(sent, MaxTokens) = 2

(***************************************************************************)
(* Command queue of BluetoothService                                       *)
(***************************************************************************)

\* The largest capacity the runs explored here could tell from none.
QueueCapacity == MaxQueue - 1

\* C13: The queue has a fixed capacity: a producer called when the queue
\* holds that many commands does not make it longer.
C13_QueueBounded ==
    [][Len(svcCommandQueue) >= QueueCapacity =>
          Len(svcCommandQueue') <= Len(svcCommandQueue)]_vars

\* C14: No step of the control screen hands more than one command to the
\* link: commands go out one per tick of a drain timer.
C14_OneCommandPerTick == [][Len(sent') <= Len(sent) + 1]_vars

\* C15: While the service is not connected its queue is empty, and no
\* command that was enqueued before the current session started is written.
C15_QueueClearedOnDisconnect ==
    /\ ~svcIsConnected => svcCommandQueue = <<>>
    /\ ~svcLastWrite.old

(***************************************************************************)
(* Joystick input                                                          *)
(***************************************************************************)

\* The raw offset is nearer to the centre than maxDistance * deadzone.
BelowDeadzone(raw) ==
    (raw[1] * raw[1] + raw[2] * raw[2]) * 1000
        < ((maxDistance * deadzoneFraction) * (maxDistance * deadzoneFraction))
              \div 1000

\* The raw offset is at maxDistance from the centre or farther.
AtOrBeyondMax(raw) ==
    raw[1] * raw[1] + raw[2] * raw[2] >= maxDistance * maxDistance

\* C22: For a raw offset below maxDistance * deadzone normalize returns the
\* zero sample, and handleJoystickMove classifies that sample as Stop.
C22_DeadzoneGivesZeroAndStop ==
    BelowDeadzone(joyRaw) =>
        /\ joyData = ZeroSample
        /\ joyCommand \in {NULL, "S"}
        /\ \A gear \in Gears : DirectionCommand(<<joyData.x, joyData.y>>, gear) = "S"

\* normalize was called with an offset inside the deadzone that is not the
\* centre, and the sample was dispatched.
C22_Witness ==
    /\ joyRaw = <<3, -3>>
    /\ joyData = ZeroSample
    /\ joyCommand = "S"

\* C23: For a raw offset at distance maxDistance or more, the sample's
\* distance is exactly 1.
C23_ClampedMagnitudeIsOne ==
    AtOrBeyondMax(joyRaw) => joyData.distance = One

\* normalize was called with an offset twice as far as maxDistance, and with
\* one exactly at maxDistance.
C23_Witness ==
    \/ joyRaw = <<100, -100>> /\ joyData.distance = One
    \/ joyRaw = <<30, 40>> /\ joyData.distance = One /\ joyGear = "R"

\* C24: Every sample normalize returns has x and y between -1 and 1 and a
\* distance between 0 and 1.
C24_SampleInRange ==
    /\ -One <= joyData.x /\ joyData.x <= One
    /\ -One <= joyData.y /\ joyData.y <= One
    /\ 0 <= joyData.distance /\ joyData.distance <= One

\* C25: The command is a turn (R for x > 0, L for x < 0) iff |x| exceeds the
\* turn threshold and |x| > |y|; otherwise positive y beyond the deadzone
\* gives F in gears 1 and 2 and B in gear R, and anything else gives S; the
\* command is a function of the sample and the gear.
C25_AxisPriority ==
    LET x == joyData.x
        y == joyData.y
        turn == Abs(x) > turnThreshold /\ Abs(x) > Abs(y)
    IN joyCommand # NULL =>
        /\ joyCommand \in {"L", "R"} <=> turn
        /\ turn => joyCommand = (IF x > 0 THEN "R" ELSE "L")
        /\ (~turn /\ y > deadzone) =>
               joyCommand = (IF joyGear = "R" THEN "B" ELSE "F")
        /\ (~turn /\ y <= deadzone) => joyCommand = "S"
        /\ y <= 0 => joyCommand \notin {"F", "B"}

\* A sample that is strongly sideways but more forward than sideways was
\* classified in the reverse gear.
C25_Witness ==
    /\ joyRaw = <<35, -36>>
    /\ joyData.x > turnThreshold
    /\ joyGear = "R"
    /\ joyCommand = "B"

Cardinals == {"EAST", "SOUTH", "WEST", "NORTH"}

\* The raw offset lies in the sector of 45 degrees to either side of a
\* cardinal direction of the screen (y grows downwards), the boundary
\* belonging to the sector that follows it clockwise.
InSector(c, raw) ==
    LET dx == raw[1]
        dy == raw[2]
    IN CASE c = "EAST"  -> dx > 0 /\ -dx <= dy /\ dy < dx
         [] c = "SOUTH" -> dy > 0 /\ -dy < dx /\ dx <= dy
         [] c = "WEST"  -> dx < 0 /\ dx < dy /\ dy <= -dx
         [] c = "NORTH" -> dy < 0 /\ dy <= dx /\ dx < -dy

\* C26: A sample whose distance is at or above the centre threshold is
\* classified as the one cardinal direction whose sector holds it, never as
\* CENTER; (0, -maxDistance) is NORTH and (maxDistance, 0) is EAST.
C26_QuadrantClassification ==
    joyCardinal # "none" =>
        /\ joyData.distance >= centerThreshold =>
              /\ Cardinality({c \in Cardinals : InSector(c, joyRaw)}) = 1
              /\ joyCardinal \in Cardinals
              /\ InSector(joyCardinal, joyRaw)
        /\ joyRaw = <<0, -maxDistance>> => joyCardinal = "NORTH"
        /\ joyRaw = <<maxDistance, 0>> => joyCardinal = "EAST"

\* The sample of a push straight up was classified.
C26_Witness ==
    /\ joyRaw = <<0, -maxDistance>>
    /\ joyData.distance >= centerThreshold
    /\ joyCardinal = "NORTH"

(***************************************************************************)
(* Speed increments and the claw                                           *)
(***************************************************************************)

\* The "+" commands of an edge, sent at once or scheduled.
Increments(gear, dir) ==
    ImmediateIncrements(gear, dir) + DelayedIncrements(gear, dir)

\* C27: On an edge, a turn gets fewer increments than a straight move gets in
\* the same gear, and gear 2 gets more than gear 1 gets for the same kind of
\* move.
C27_IncrementsOrdered ==
    [][\A s \in Samples : (AppConnected /\ HandleJoystickMove(s)) =>
        LET dir == DirectionCommand(s, currentGear)
            n == CountIn(NewSent, {"+"}) + plusTimers' - plusTimers
        IN (dir # "S" /\ dir # lastCommandRef) =>
              /\ IsTurning(dir) => n < Increments(currentGear, "F")
              /\ ~IsTurning(dir) => n > Increments(currentGear, "L")
              /\ currentGear = "2" => n > Increments("1", dir)]_vars

\* C28: A claw toggle while connected sends exactly one claw token, C when
\* the button shows the claw closed afterwards and O when open, and changes
\* neither the last dispatched direction, the speed-sent flag nor the gear;
\* while not connected it sends nothing.
C28_ClawToggle ==
    [][\A closed \in BOOLEAN : ClawToggled(closed) =>
        /\ NewSent = IF AppConnected
                     THEN <<IF clawIsClosed' THEN "C" ELSE "O">>
                     ELSE <<>>
        /\ UNCHANGED <<lastCommandRef, speedSentRef, currentGear>>]_vars

\* The claw was closed in the middle of a forward move whose increment has
\* been sent, in gear 2.
C28_Witness ==
    /\ clawIsClosed
    /\ Len(sent) > 0
    /\ sent[Len(sent)] = "C"
    /\ lastCommandRef = "F"
    /\ speedSentRef
    /\ currentGear = "2"

(***************************************************************************)
(* Write failures                                                          *)
(***************************************************************************)

\* C29: After a write has failed with a disconnect error, the hook comes to
\* connect again: a connect sequence runs or the hook is connected, also
\* when the user does not scan or connect.
C29_AutoReconnect ==
    hClLost ~> (clConnectedDeviceId # NULL \/ \E c \in Calls : ClInProgress(c))

\* C30: A write that fails with an error that is no disconnect error drops
\* that command only: the device reference, the device and the connected
\* device id stay as they are, so later commands are written as before.
C30_TransientFailureKeepsSession ==
    [][\A i \in 1..Len(bleWrites) :
          BleWriteWithoutResponseSettles(i, "other") =>
              /\ UNCHANGED <<bleDeviceRef, bleDevice, bleConnectedDeviceId>>
              /\ bleWrites' = Remove(bleWrites, i)]_vars

\* With the session that saw such a failure still held, a later command is
\* being written.
C30_Witness ==
    /\ hBleDropped
    /\ bleDeviceRef # NULL
    /\ bleConnectedDeviceId = bleDeviceRef
    /\ Len(bleWrites) > 0
    /\ bleWrites[1].dev = bleDeviceRef

(***************************************************************************)
(* Scans: the adapter and the auto-stop timer                              *)
(***************************************************************************)

\* C31: While the adapter is not powered on, a scan call of the service
\* that has been started returns: it does not wait for the adapter to be
\* switched on.
C31_ScanFailsFast ==
    (cnScan # "idle" /\ ~adapterOn) ~> (cnScan = "idle" \/ adapterOn)

\* C38: An auto-stop timer of useBle that stops a running scan is the timer
\* of that scan: no timer of an earlier scan is pending when it fires.
C38_TimerStopsItsOwnScan ==
    [][(bleScanOn /\ BleScanTimerFires) => bleScanTimers = 1]_vars

(***************************************************************************)
(* BluetoothService: the drain timers                                      *)
(***************************************************************************)

\* C32: A write that has not settled does not hold the drain loop back:
\* while a drain timer runs and the queue holds a command, the next tick can
\* take the head off the queue and, unless processCommand's guard returns,
\* start to write it, also with writes that never complete.
C32_StalledWriteDoesNotBlock ==
    (svcIntervals > 0 /\ svcCommandQueue # <<>> /\ svcWrites < MaxSvcWrites)
        => ENABLED (/\ SvcTick
                    /\ svcCommandQueue' = Tail(svcCommandQueue)
                    /\ SvcCanWrite => /\ svcWrites' = svcWrites + 1
                                      /\ svcLastWrite' = Head(svcCommandQueue))

\* A tick has started a write while an earlier write had not settled.
C32_Witness ==
    /\ svcWrites >= 2
    /\ svcLastWrite # NoWrite

\* C37: At most one drain timer runs, and none while the service is not
\* connected.
C37_OneDrainTimer ==
    /\ svcIntervals <= 1
    /\ ~svcIsConnected => svcIntervals = 0

(***************************************************************************)
(* Sessions                                                                *)
(***************************************************************************)

\* C34: A write that fails with a disconnect error leaves the session
\* reference alone when the reference is to another session than the one
\* the write was issued on.
C34_StaleFailureKeepsNewSession ==
    [][\A i \in 1..Len(bleWrites) :
          (/\ BleWriteWithoutResponseSettles(i, "disconnected")
           /\ bleDeviceRef # NULL
           /\ bleDeviceRef # bleWrites[i].dev)
              => bleDeviceRef' = bleDeviceRef]_vars

\* C33: The control screen is in its connected state only while the hook
\* holds a session, on the device the screen names.
C33_ScreenConnectedOnlyWithSession ==
    AppConnected => bleDeviceRef = connectedDeviceId

(***************************************************************************)
(* Delayed commands                                                        *)
(***************************************************************************)

\* C35: No "+" is sent after an "S" unless a direction token other than "S"
\* was sent between the two.
C35_NoIncrementAfterStop ==
    \A i \in 1..Len(sent) :
        sent[i] = "+" =>
            \A j \in 1..(i - 1) :
                sent[j] = "S" =>
                    \E k \in (j + 1)..(i - 1) :
                        sent[k] \in DirectionTokens \ {"S"}

\* C36: With no timer pending and the MAX token of the selected gear sent
\* in this session, no other MAX token has been sent after the last one of
\* that gear: the last MAX token sent is the one of the selected gear.
C36_LastMaxIsCurrentGear ==
    LET m == MaxToken(MaxSpeed(currentGear))
        last == {i \in 1..Len(sent) :
                    /\ sent[i] \in {MaxToken(100), MaxToken(255)}
                    /\ \A j \in (i + 1)..Len(sent) :
                           sent[j] \notin {MaxToken(100), MaxToken(255)}}
    IN (/\ AppConnected
        /\ initPending = 0
        /\ maxTimers[100] + maxTimers[255] = 0
        /\ \E i \in 1..Len(sent) : sent[i] = m)
           => \A i \in last : sent[i] = m

(***************************************************************************)
(* The claw state shown                                                    *)
(***************************************************************************)

\* C39: While connected, with a claw token sent in this session, clawOpen
\* is true exactly when the last claw token sent is "O".
C39_ClawStateMatchesLastToken ==
    \A i \in 1..Len(sent) :
        (/\ AppConnected
         /\ sent[i] \in {"O", "C"}
         /\ \A j \in (i + 1)..Len(sent) : sent[j] \notin {"O", "C"})
            => (clawOpen <=> sent[i] = "O")

====
